---- MODULE Spec2Model ----
(***************************************************************************)
(* The UDS server of the downloader: the per-client read-dispatch-write    *)
(* loop (uds/server.py), the protocol model (uds/protocol.py), the framing *)
(* codec's outcome (uds/utils.py), the command registry and its handlers   *)
(* (uds/handlers.py) and the fetch collaborator's result shapes            *)
(* (ytdlp_handler.py).                                                     *)
(*                                                                         *)
(* Python values are modelled as follows.  A JSON document is a tagged     *)
(* record: [t |-> "obj", d |-> f] with f a function from the keys present  *)
(* to values, [t |-> "str", s |-> ...], [t |-> "null"], [t |-> "list"],    *)
(* [t |-> "num"].  Python's None is the record None.  A dict returned by a *)
(* handler is a TLA+ record with exactly the keys of the dict.  A          *)
(* formatted string (f"...{x}...") is the sequence of its pieces.          *)
(***************************************************************************)
EXTENDS Integers, Sequences, FiniteSets, TLC

(***************************************************************************)
(* Bounds of the model.                                                    *)
(***************************************************************************)
\* frames that all peers together put on the wire
MaxFrames == 2

\* the clock stops at MaxClock seconds
MaxClock == 720

\* the longest payload a peer writes, in bytes
MaxLen == 2

\* how many times a peer writes to its byte stream
MaxWrites == 1

\* how many calls of initialize, start_server and stop_server are made
MaxCalls == 4

Clients == {"c1", "c2"}

(***************************************************************************)
(* Python values.                                                          *)
(***************************************************************************)
None == [t |-> "None"]

EmptyDict == [t |-> "obj", d |-> <<>>]

JStr(s) == [t |-> "str", s |-> s]

JObj(d) == [t |-> "obj", d |-> d]

\* the values str(uuid.uuid4()) returns, in the order of the calls
UuidTable ==
    <<"uuid-1", "uuid-2", "uuid-3", "uuid-4", "uuid-5", "uuid-6", "uuid-7", "uuid-8",
      "uuid-9", "uuid-10", "uuid-11", "uuid-12", "uuid-13", "uuid-14", "uuid-15", "uuid-16",
      "uuid-17", "uuid-18", "uuid-19", "uuid-20", "uuid-21", "uuid-22", "uuid-23", "uuid-24">>

Uuids == {UuidTable[i] : i \in 1..Len(UuidTable)}

uuid4(n) == UuidTable[n + 1]

\* isinstance(v, dict)
IsDict(v) == v.t = "obj"

\* key in d and d[key] is truthy; the values of "keepalive" are booleans,
\* every other value of a params object is a string
Truthy(d, k) ==
    /\ k \in DOMAIN d
    /\ IF k = "keepalive" THEN d[k] = TRUE ELSE d[k] # ""

(***************************************************************************)
(* main.py: the configuration.                                             *)
(***************************************************************************)
allowed_origins == {"https://youtube.com"}

UrlOk == "https://youtube.com/watch?v=a"

UrlBlocked == "https://example.org/a"

\* ytdlp/utils.py get_platform, on the URLs of the model
get_platform(url) ==
    IF url = UrlOk THEN "https://youtube.com"
    ELSE IF url = UrlBlocked THEN "https://example.org"
    ELSE "unknown"

(***************************************************************************)
(* uds/protocol.py                                                         *)
(***************************************************************************)
validate_request(request) ==
    /\ IsDict(request)
    /\ "command" \in DOMAIN request.d
    /\ request.d["command"].t = "str"
    /\ "id" \in DOMAIN request.d
    /\ request.d["id"].t = "str"

parse_request(data) ==
    IF validate_request(data) THEN data ELSE None

BaseFields == {"type", "status", "id", "timestamp"}

create_success_response(request_id, data) ==
    [type |-> "response", status |-> "success", id |-> request_id,
     fields |-> IF data # None THEN BaseFields \cup {"data"} ELSE BaseFields,
     data |-> data, error |-> <<>>]

\* request_id = None stands for the call without a request id: the id is then
\* str(uuid.uuid4()), the n-th uuid of the process
create_error_response(error_message, request_id, n) ==
    [type |-> "response", status |-> "error",
     id |-> IF request_id = None THEN uuid4(n) ELSE request_id.s,
     fields |-> BaseFields \cup {"error"},
     data |-> None, error |-> error_message]

\* whether create_error_response drew a uuid
DrawsUuid(request_id) == request_id = None

(***************************************************************************)
(* uds/utils.py read_json_message: the outcome of reading one frame.  The  *)
(* frame kinds are "json" (a complete frame holding a JSON document),      *)
(* "badjson" and "badutf8" (a complete frame whose payload does not parse  *)
(* or does not decode), "zero" and "oversize" (the header declares length  *)
(* 0 or more than 100 MiB).  Every failure returns None.                   *)
(***************************************************************************)
read_json_message(frame) ==
    IF frame.kind = "json" THEN frame.doc ELSE None

(***************************************************************************)
(* uds/utils.py, byte by byte.  A byte is a number of 0..255, a text a      *)
(* sequence of code points.  The payloads are made of the bytes of          *)
(* PayloadBytes: the digit 1 (49), the double quote (34) and 0xFF (255),    *)
(* which no UTF-8 sequence contains.                                        *)
(***************************************************************************)
PayloadBytes == {49, 34, 255}

Payloads == UNION {[1..n -> PayloadBytes] : n \in 1..MaxLen}

\* struct.pack('!I', n): four bytes, the most significant first
pack(n) == <<n \div 16777216, (n \div 65536) % 256, (n \div 256) % 256, n % 256>>

\* unpack with the least significant byte first
unpack_little(h) == ((h[4] * 256 + h[3]) * 256 + h[2]) * 256 + h[1]

\* struct.unpack('!I', header)[0]
unpack(h) == ((h[1] * 256 + h[2]) * 256 + h[3]) * 256 + h[4]

MaxMessageLength == 100 * 1024 * 1024

\* the length test that refuses nothing
TooLarge_never(message_length) == FALSE

\* message_length > 100 * 1024 * 1024
TooLarge(message_length) == message_length > MaxMessageLength

\* message.decode('utf-8') succeeds
Utf8Valid(bytes) == \A i \in DOMAIN bytes : bytes[i] < 128

\* message.decode('utf-8') for bytes that decode: every byte below 128 is
\* the code point of that number
decode(bytes) == [i \in DOMAIN bytes |-> bytes[i]]

\* json_data.encode('utf-8'): json.dumps writes code points below 128 only
encode(text) == [i \in DOMAIN text |-> text[i]]

\* the JSON texts over the code points of PayloadBytes: a number is a row of
\* digits, a string is a pair of quotes with digits between them
IsNumber(text) == Len(text) >= 1 /\ \A i \in DOMAIN text : text[i] = 49

IsString(text) ==
    /\ Len(text) >= 2 /\ text[1] = 34 /\ text[Len(text)] = 34
    /\ \A i \in 2..(Len(text) - 1) : text[i] = 49

\* json.loads(text) succeeds
JsonValid(text) == IsNumber(text) \/ IsString(text)

\* json.loads(text) for a text that parses
loads(text) ==
    IF IsNumber(text) THEN [t |-> "num"]
    ELSE [t |-> "str", s |-> SubSeq(text, 2, Len(text) - 1)]

\* the payloads that are JSON texts: what json.dumps can have written
JsonTexts == {p \in Payloads : Utf8Valid(p) /\ JsonValid(decode(p))}

\* the bytes send_json_message writes for the text json.dumps returned: the
\* length prefix by one sendall, the message by one sendall per 8192 bytes
Written(json_data) == pack(Len(encode(json_data))) \o encode(json_data)

\* the frame-level view of a payload read whole
FrameOf(bytes) ==
    IF ~Utf8Valid(bytes) THEN [kind |-> "badutf8", doc |-> None]
    ELSE IF ~JsonValid(decode(bytes)) THEN [kind |-> "badjson", doc |-> None]
    ELSE [kind |-> "json", doc |-> loads(decode(bytes))]

(***************************************************************************)
(* ytdlp_handler.py: the collaborators.  `env` is the outcome of the       *)
(* external library and of the database for the call, which the caller     *)
(* cannot influence.                                                       *)
(***************************************************************************)
NotAllowed(platform) ==
    [status |-> "error", message |-> <<"Platform '", platform, "' is not allowed">>]

ErrorDict(message) == [status |-> "error", message |-> message]

\* what audio.download does for one download_audio call of a song that is
\* not in the database:
\*   dl_ok       audio.download returns the downloaded song
\*   dl_none     audio.download returns None
\*   dl_errdict  audio.download returns {'status': 'error', ...}
AudioEnv == {"dl_ok", "dl_none", "dl_errdict"}

download_audio(url, env) ==
    LET platform == get_platform(url) IN
    IF platform \notin allowed_origins THEN NotAllowed(platform)
    ELSE IF env = "dl_none" THEN ErrorDict(<<"Download failed">>)
    ELSE IF env = "dl_ok"
        THEN [status |-> "success", title |-> "Song", skipped |-> FALSE]
    ELSE [status |-> "success", title |-> "Unknown", skipped |-> FALSE]

\* what streaming.download_playlist_streaming does for a one-track playlist:
\*   pl_ok      the track downloads (one playlist_item_downloaded event)
\*   pl_raises  the extraction raises
PlaylistEnv == {"pl_ok", "pl_raises"}

\* the events download_playlist fires through fire_event while it runs
PlaylistEvents(url, env) ==
    IF get_platform(url) \in allowed_origins /\ env = "pl_ok"
        THEN <<"playlist_item_downloaded">>
        ELSE <<>>

download_playlist(url, env) ==
    LET platform == get_platform(url) IN
    IF platform \notin allowed_origins THEN NotAllowed(platform)
    ELSE IF env = "pl_raises" THEN ErrorDict(<<"boom">>)
    ELSE [status |-> "success", count |-> 1, successful_downloads |-> 1]

\* what yt_dlp's extract_info does for get_playlist_info
InfoEnv == {"info_ok", "info_none"}

get_playlist_info(url, env) ==
    LET platform == get_platform(url) IN
    IF platform \notin allowed_origins THEN NotAllowed(platform)
    ELSE IF env = "info_none" THEN ErrorDict(<<"Could not extract playlist info">>)
    ELSE [status |-> "success", playlist_title |-> "List", total_tracks |-> 1]

\* start_playlist_download: n is the number of uuids drawn so far.  The
\* background thread is started before the playlist information is fetched.
start_playlist_download(url, env, n) ==
    LET playlist_id == uuid4(n)
        playlist_info == get_playlist_info(url, env)
    IN  IF playlist_info.status = "error" THEN playlist_info
        ELSE [status |-> "success", playlist_id |-> playlist_id,
              playlist_title |-> playlist_info.playlist_title,
              total_tracks |-> playlist_info.total_tracks,
              is_playlist |-> TRUE]

\* what search_module.find does
SearchEnv == {"found", "find_raises"}

search(query, platform, env) ==
    LET allowed_platform ==
            IF platform \in {"youtube", "youtu.be", "youtube.com"}
                THEN "https://youtube.com"
                ELSE get_platform(platform)
    IN  IF allowed_platform \notin allowed_origins THEN NotAllowed(allowed_platform)
        ELSE IF env = "find_raises" THEN ErrorDict(<<"boom">>)
        ELSE [results |-> <<"hit">>]

\* download_playlist_item, for an index the playlist has or has not
ItemEnv == {"item_ok", "item_missing"}

download_playlist_item(url, index, env) ==
    LET platform == get_platform(url) IN
    IF platform \notin allowed_origins THEN NotAllowed(platform)
    ELSE IF env = "item_missing"
        THEN ErrorDict(<<"Could not find item at index ", index>>)
    ELSE [status |-> "success", title |-> "Song", index |-> index]

(***************************************************************************)
(* uds/handlers.py: the handlers.  A handler's outcome is a record:        *)
(*   raised   whether the handler raised                                   *)
(*   msg      str(e) of the exception                                      *)
(*   value    the value returned                                           *)
(*   collab   the collaborator of ytdlp_handler that was called, or "none" *)
(*   cstatus  "error" when the collaborator's result reports a failure,    *)
(*            "success" when it does not, "none" without a collaborator    *)
(*   uuids    how many uuids the call drew                                 *)
(*   spawn    whether a background download thread was started            *)
(*   events   the events fired while the handler ran                       *)
(***************************************************************************)
Raise(msg) ==
    [raised |-> TRUE, msg |-> msg, value |-> None, collab |-> "none",
     cstatus |-> "none", uuids |-> 0, spawn |-> FALSE, events |-> <<>>]

\* result.get("status") == "error", for the dict or None of a collaborator
ReportsError(result) ==
    result = None \/ ("status" \in DOMAIN result /\ result.status = "error")

\* the handler raises after the collaborator `collab` returned `result`
RaiseAfter(msg, collab, result) ==
    [Raise(msg) EXCEPT !.collab = collab,
                       !.cstatus = IF ReportsError(result) THEN "error" ELSE "success"]

\* the handler returns `value` without calling a collaborator
ReturnOwn(value) ==
    [raised |-> FALSE, msg |-> <<>>, value |-> value, collab |-> "none",
     cstatus |-> "none", uuids |-> 0, spawn |-> FALSE, events |-> <<>>]

\* the handler returns `value` after the collaborator `collab` returned `result`
Return(value, collab, result) ==
    [ReturnOwn(value) EXCEPT !.collab = collab,
                             !.cstatus = IF ReportsError(result) THEN "error" ELSE "success"]

\* params.get(...) on a value that is not a dict
AttributeError(v) ==
    <<"'", IF v.t = "null" THEN "NoneType" ELSE v.t, "' object has no attribute 'get'">>

\* `if not result` on the dict or None a collaborator returned
Falsy(result) == result = None

handle_download_audio(params, env) ==
    IF ~IsDict(params) THEN Raise(AttributeError(params))
    ELSE IF ~Truthy(params.d, "url") THEN Raise(<<"URL is required">>)
    ELSE LET result == download_audio(params.d["url"], env) IN
         IF Falsy(result) THEN RaiseAfter(<<"Download failed">>, "download_audio", result)
         ELSE Return(result, "download_audio", result)

handle_download_playlist(params, env) ==
    IF ~IsDict(params) THEN Raise(AttributeError(params))
    ELSE IF ~Truthy(params.d, "url") THEN Raise(<<"URL is required">>)
    ELSE LET result == download_playlist(params.d["url"], env) IN
         IF Falsy(result)
             THEN RaiseAfter(<<"Playlist download failed">>, "download_playlist", result)
             ELSE [Return(result, "download_playlist", result)
                     EXCEPT !.events = PlaylistEvents(params.d["url"], env)]

handle_start_playlist_download(params, env, n) ==
    IF ~IsDict(params) THEN Raise(AttributeError(params))
    ELSE IF ~Truthy(params.d, "url") THEN Raise(<<"URL is required">>)
    ELSE LET result == start_playlist_download(params.d["url"], env, n) IN
         IF Falsy(result) \/ result.status = "error"
             THEN [RaiseAfter(result.message, "start_playlist_download", result)
                     EXCEPT !.uuids = 1, !.spawn = TRUE]
             ELSE [Return(result, "start_playlist_download", result)
                     EXCEPT !.uuids = 1, !.spawn = TRUE]

handle_get_playlist_download_status(params) ==
    IF ~IsDict(params) THEN Raise(AttributeError(params))
    ELSE IF ~Truthy(params.d, "playlist_id") THEN Raise(<<"playlist_id is required">>)
    ELSE ReturnOwn([playlist_id |-> params.d["playlist_id"], status |-> "in_progress",
                    total_tracks |-> 0, downloaded_tracks |-> 0, failed_tracks |-> 0])

handle_get_playlist_info(params, env) ==
    IF ~IsDict(params) THEN Raise(AttributeError(params))
    ELSE IF ~Truthy(params.d, "url") THEN Raise(<<"URL is required">>)
    ELSE LET result == get_playlist_info(params.d["url"], env) IN
         IF Falsy(result)
             THEN RaiseAfter(<<"Getting playlist info failed">>, "get_playlist_info", result)
             ELSE Return(result, "get_playlist_info", result)

handle_download_playlist_item(params, env) ==
    IF ~IsDict(params) THEN Raise(AttributeError(params))
    ELSE IF ~Truthy(params.d, "url") THEN Raise(<<"URL is required">>)
    ELSE IF "index" \notin DOMAIN params.d THEN Raise(<<"Index is required">>)
    ELSE LET result == download_playlist_item(params.d["url"], params.d["index"], env) IN
         IF Falsy(result)
             THEN RaiseAfter(<<"Playlist item download failed for index ", params.d["index"]>>,
                             "download_playlist_item", result)
             ELSE Return(result, "download_playlist_item", result)

\* handle_search without the test of `query`: the collaborator gets None
handle_search_unchecked(params, env) ==
    IF ~IsDict(params) THEN Raise(AttributeError(params))
    ELSE LET query == IF "query" \in DOMAIN params.d THEN params.d["query"] ELSE "None"
             results == search(query, "youtube", env)
         IN  Return(results, "search", results)

handle_search(params, env) ==
    IF ~IsDict(params) THEN Raise(AttributeError(params))
    ELSE IF ~Truthy(params.d, "query") THEN Raise(<<"Search query is required">>)
    ELSE LET platform == IF "platform" \in DOMAIN params.d
                             THEN params.d["platform"] ELSE "youtube"
             results == search(params.d["query"], platform, env)
         IN  IF Falsy(results) THEN Return([results |-> <<>>], "search", results)
             ELSE Return(results, "search", results)

\* handle_ping reading params["timestamp"]: KeyError without a timestamp
handle_ping_strict(params) ==
    IF ~IsDict(params) THEN Raise(AttributeError(params))
    ELSE IF "timestamp" \notin DOMAIN params.d THEN Raise(<<"'timestamp'">>)
    ELSE ReturnOwn([message |-> "pong", timestamp |-> params.d["timestamp"]])

handle_ping(params) ==
    IF ~IsDict(params) THEN Raise(AttributeError(params))
    ELSE LET timestamp == IF "timestamp" \in DOMAIN params.d
                              THEN params.d["timestamp"] ELSE "none"
         IN  IF Truthy(params.d, "keepalive")
                 THEN ReturnOwn([message |-> "pong", timestamp |-> timestamp,
                                 keepalive |-> TRUE])
                 ELSE ReturnOwn([message |-> "pong", timestamp |-> timestamp])

(***************************************************************************)
(* uds/handlers.py: the registry and the dispatcher.  The registry maps a  *)
(* command name to the name of the function bound to it.  Besides the      *)
(* built-in handlers a process may register its own through                *)
(* uds_handler.register_command_handler: "h_none" returns None, "h_raise"  *)
(* raises, "not_callable" is a value that is not callable.                 *)
(***************************************************************************)
DefaultHandlers ==
    [download_audio |-> "handle_download_audio",
     download_playlist |-> "handle_download_playlist",
     download_playlist_item |-> "handle_download_playlist_item",
     get_playlist_info |-> "handle_get_playlist_info",
     start_playlist_download |-> "handle_start_playlist_download",
     get_playlist_download_status |-> "handle_get_playlist_download_status",
     search |-> "handle_search",
     ping |-> "handle_ping"]

CustomHandlers == {"h_none", "h_raise"}

\* the element is in the list
InList(list, x) == \E i \in DOMAIN list : list[i] = x

\* ytdlp_handler.register_event_callback: the list after the call
register_event_callback(list, callback) ==
    IF ~InList(list, callback) THEN Append(list, callback) ELSE list

\* register_event_listener that appends the listener whether it is in the
\* list or not
register_event_listener_again(list, listener_func) == Append(list, listener_func)

\* handlers.register_event_listener: the list after the call
register_event_listener(list, listener_func) ==
    IF listener_func # "not_callable" /\ ~InList(list, listener_func)
        THEN Append(list, listener_func)
        ELSE list

\* callable(handler_func)
callable(handler_func) == handler_func # "not_callable"

\* register_handler that keeps the handler a name is bound to already
register_handler_first(registry, command, handler_func) ==
    IF handler_func = "not_callable" \/ command \in DOMAIN registry THEN registry
    ELSE [k \in DOMAIN registry \cup {command} |->
             IF k = command THEN handler_func ELSE registry[k]]

\* register_handler: the registry after the call
register_handler(registry, command, handler_func) ==
    IF handler_func = "not_callable" THEN registry
    ELSE [k \in DOMAIN registry \cup {command} |->
             IF k = command THEN handler_func ELSE registry[k]]

\* the outcomes of the collaborator a handler may meet
EnvOf(handler) ==
    CASE handler = "handle_download_audio" -> AudioEnv
      [] handler = "handle_download_playlist" -> PlaylistEnv
      [] handler \in {"handle_start_playlist_download", "handle_get_playlist_info"} -> InfoEnv
      [] handler = "handle_search" -> SearchEnv
      [] handler = "handle_download_playlist_item" -> ItemEnv
      [] OTHER -> {"none"}

\* handler(params, config)
Invoke(handler, params, env, n) ==
    CASE handler = "handle_download_audio" -> handle_download_audio(params, env)
      [] handler = "handle_download_playlist" -> handle_download_playlist(params, env)
      [] handler = "handle_download_playlist_item" -> handle_download_playlist_item(params, env)
      [] handler = "handle_get_playlist_info" -> handle_get_playlist_info(params, env)
      [] handler = "handle_start_playlist_download" -> handle_start_playlist_download(params, env, n)
      [] handler = "handle_get_playlist_download_status" -> handle_get_playlist_download_status(params)
      [] handler = "handle_search" -> handle_search(params, env)
      [] handler = "handle_ping" -> handle_ping(params)
      [] handler = "h_none" -> ReturnOwn(None)
      [] handler = "h_raise" -> Raise(<<"custom failure">>)

RequestParams(request) ==
    IF "params" \in DOMAIN request.d THEN request.d["params"] ELSE EmptyDict

\* UnknownCommand without the name of the command
UnknownCommand_generic(command, request_id, n) ==
    create_error_response(<<"Unknown command">>, request_id, n)

\* the response of process_request to a command without a handler
UnknownCommand(command, request_id, n) ==
    create_error_response(<<"Unknown command: ", command>>, request_id, n)

\* HandlerError without the message of the exception
HandlerError_generic(command, msg, request_id, n) ==
    create_error_response(<<"Error processing ", command>>, request_id, n)

\* the response of process_request to a handler that raised str(e) = msg
HandlerError(command, msg, request_id, n) ==
    create_error_response(<<"Error processing ", command, ": ">> \o msg, request_id, n)

\* process_request(request, config) with the registry `registry`, the
\* collaborator outcome `env` and n uuids drawn so far.  The result names
\*   escaped   whether an exception left process_request (exc is its str)
\*   response  the response returned
\*   handler   the handler that was invoked, or "none"
\*   outcome   the outcome of that handler
process_request(request, registry, env, n) ==
    LET command == request.d["command"].s
        request_id == request.d["id"]
        params == RequestParams(request)
    IN  IF command = "ping" /\ ~IsDict(params)
            THEN [escaped |-> TRUE, exc |-> AttributeError(params), response |-> None,
                  handler |-> "none", outcome |-> ReturnOwn(None)]
        ELSE IF command \notin DOMAIN registry
            THEN [escaped |-> FALSE, exc |-> <<>>,
                  response |-> UnknownCommand(command, request_id, n),
                  handler |-> "none", outcome |-> ReturnOwn(None)]
        ELSE LET handler == registry[command]
                 result == Invoke(handler, params, env, n)
             IN  [escaped |-> FALSE, exc |-> <<>>,
                  response |->
                      IF result.raised
                          THEN HandlerError(command, result.msg, request_id,
                                            n + result.uuids)
                          ELSE create_success_response(request_id.s, result.value),
                  handler |-> handler, outcome |-> result]

\* the commands process_request can meet with a given registry entry
ProcessEnv(request, registry) ==
    LET command == request.d["command"].s IN
    IF command \in DOMAIN registry THEN EnvOf(registry[command]) ELSE {"none"}

(***************************************************************************)
(* The frames a peer may put on the wire.  The n-th frame of a connection  *)
(* carries the id RequestId(n), as a client that numbers its requests.     *)
(***************************************************************************)
RequestIds == <<"r1", "r2", "r3", "r4", "r5">>

RequestId(n) == RequestIds[n]

Req0(command, id) == JObj([command |-> JStr(command), id |-> JStr(id)])

Req(command, id, params) ==
    JObj([command |-> JStr(command), id |-> JStr(id), params |-> params])

\* the values of "params" in the requests of the model
ParamsOf(command) ==
    CASE command = "ping" -> {[t |-> "null"], JObj([keepalive |-> TRUE])}
      [] command = "search" -> {JObj([query |-> "q"])}
      [] command = "download_audio" ->
            {[t |-> "list"], EmptyDict, JObj([url |-> UrlOk]), JObj([url |-> UrlBlocked])}
      [] command = "download_playlist" -> {JObj([url |-> UrlOk])}
      [] command = "start_playlist_download" ->
            {JObj([url |-> UrlOk])}
      [] command = "get_playlist_download_status" -> {JObj([playlist_id |-> "p1"])}
      [] OTHER -> {}

\* the command names of the requests: the built-in ones, one that nobody
\* registers and one that a custom handler may be registered for
Commands == DOMAIN DefaultHandlers \cup {"frobnicate", "noop"}

\* requests: a string command and a string id
ValidDocs(id) ==
    {Req0(command, id) : command \in {"ping", "frobnicate", "noop"}}
    \cup UNION {{Req(command, id, params) : params \in ParamsOf(command)} :
                command \in Commands}

\* JSON documents that are not a request
InvalidDocs(id) ==
    {[t |-> "list"],
     JObj([id |-> JStr(id)]),
     JObj([command |-> JStr("ping"), id |-> [t |-> "num"]])}

\* the frames whose payload is a JSON document
JsonFrames(id) ==
    {[kind |-> "json", doc |-> doc] : doc \in ValidDocs(id) \cup InvalidDocs(id)}

\* the frames whose payload is not a JSON document
MalformedFrames == {[kind |-> "badjson", doc |-> None], [kind |-> "badutf8", doc |-> None]}

Frames(id) == JsonFrames(id) \cup MalformedFrames

(***************************************************************************)
(* The state.                                                              *)
(***************************************************************************)
VARIABLES
    running,          \* server._running
    clients,          \* server._clients: client id -> its entry
    command_handlers, \* handlers._command_handlers
    pc,               \* where the thread of each connection is
    request,          \* per connection: the frame read, its arrival number and current_time
    response,         \* per connection: the response about to be sent and what follows
    sockClosed,       \* per connection: the server's socket was closed
    sockTimeout,      \* per connection: the timeout set on the server's socket
    original_timeout, \* per connection: the timeout read_json_message saved on entry
    stream,           \* per connection: the bytes on the wire the server has not received
    header,           \* per connection: the header bytes read_json_message has read
    message,          \* per connection: the payload bytes read_json_message has read
    returned,         \* per connection: what read_json_message returned last, and where
    peerReset,        \* per connection: the peer reset the connection
    peerWrote,        \* per connection: what the peer wrote to the stream
    headersSent,      \* per connection: the ids of the messages whose length prefix
                      \* send_json_message has written ahead of the payload
    socketFile,       \* the file at the socket path: "none", "stale" or "bound"
    listener,         \* _socket: "none" or "open"
    acceptor,         \* the thread of _server_loop: where it is, the client it accepted
    server_running,   \* uds_handler._server_running
    initialized,      \* uds_handler.initialize was called
    event_callbacks,  \* ytdlp_handler.event_callbacks
    event_listeners,  \* handlers._event_listeners
    results,          \* what the calls of the start and stop functions returned
    peerOpen,         \* per connection: the peer has not closed its end
    inbox,            \* per connection: the frames on the wire to the server
    out,              \* per connection: the frames the server passed to send_json_message
    calls,            \* the handler invocations so far, each with the playlist id of
                      \* the download thread it started
    background,       \* the playlist ids of the background download threads started
    uuidCount,        \* how many uuids the process drew for messages
    now,              \* time.time()
    framesSent,       \* how many frames the peers sent
    closedBy,         \* per connection: how its loop ended ("none" while it runs)
    threads,          \* the background download threads: what each still has to do
    published,        \* the event messages, in the order of the handle_event calls, each
                      \* with the clients it went to and the thread that fired it
    stopper           \* where the thread that called stop() is

vars == <<running, clients, command_handlers, pc, request, response, sockClosed,
          sockTimeout, peerOpen, inbox, out, calls, background, uuidCount, now,
          framesSent, closedBy, threads, published, stopper, original_timeout, stream,
          header, message, returned, peerReset, peerWrote, headersSent, socketFile,
          listener,
          acceptor, server_running, initialized, results, event_callbacks,
          event_listeners>>

\* the state of the server as a whole: its socket and file, its accept loop
lifecycle ==
    <<socketFile, listener, acceptor, server_running, initialized, results,
      event_callbacks, event_listeners>>

\* the state of the byte streams and of the reads in progress
codec == <<stream, header, message, returned, peerReset, peerWrote, headersSent>>

\* read_json_message has not returned on the connection
NotReturned == [value |-> None, why |-> "none", n |-> 0, at |-> "none"]

NoRequest == [frame |-> [kind |-> "none", doc |-> None], n |-> 0, current_time |-> 0]

NoResponse == [msg |-> None, next |-> "none"]

\* nobody called stop()
NotStopping == [pc |-> "idle", todo |-> <<>>]

\* the state main.py reaches: the modules initialised (the default handlers
\* registered) and the server started, no connection yet
Init ==
    /\ running = TRUE
    /\ clients = <<>>
    /\ command_handlers = DefaultHandlers
    /\ pc = [c \in Clients |-> "none"]
    /\ request = [c \in Clients |-> NoRequest]
    /\ response = [c \in Clients |-> NoResponse]
    /\ sockClosed = [c \in Clients |-> FALSE]
    /\ sockTimeout = [c \in Clients |-> 0]
    /\ original_timeout = [c \in Clients |-> 0]
    /\ stream = [c \in Clients |-> <<>>]
    /\ header = [c \in Clients |-> <<>>]
    /\ message = [c \in Clients |-> <<>>]
    /\ returned = [c \in Clients |-> NotReturned]
    /\ peerReset = [c \in Clients |-> FALSE]
    /\ peerWrote = [c \in Clients |-> <<>>]
    /\ headersSent = [c \in Clients |-> <<>>]
    /\ socketFile = "bound"
    /\ listener = "open"
    /\ acceptor = [pc |-> "check", client |-> "none"]
    /\ server_running = TRUE
    /\ initialized = TRUE
    /\ event_callbacks = <<"handle_ytdlp_event">>
    /\ event_listeners = <<"handle_event">>
    /\ results = <<>>
    /\ peerOpen = [c \in Clients |-> FALSE]
    /\ inbox = [c \in Clients |-> <<>>]
    /\ out = [c \in Clients |-> <<>>]
    /\ calls = <<>>
    /\ background = {}
    /\ uuidCount = 0
    /\ now = 0
    /\ framesSent = 0
    /\ closedBy = [c \in Clients |-> "none"]
    /\ threads = <<>>
    /\ published = <<>>
    /\ stopper = NotStopping

(***************************************************************************)
(* uds/utils.py send_json_message never raises: every failure is caught    *)
(* and reported as False.  A write succeeds when the server's socket is    *)
(* open and the peer has not closed its end.                               *)
(***************************************************************************)
WriteOk(c) == ~sockClosed[c] /\ peerOpen[c]

\* the entry of `out` for one call of send_json_message: the message, the
\* request it answers (its arrival number, 0 for an event, and its frame) and
\* whether the frame was written
Sent(c, msg, req) ==
    [msg |-> msg, re |-> req.n, frame |-> req.frame, ok |-> WriteOk(c)]

\* the socket timeout after send_json_message: restored after a write,
\* left at the 120 seconds of the send when the write failed
TimeoutAfterSend(c) == IF WriteOk(c) THEN sockTimeout[c] ELSE 120

(***************************************************************************)
(* uds/protocol.py create_event_message and uds/server.py handle_event:    *)
(* the event is sent to every client of the live-client set that is marked *)
(* connected.  send_json_message reports a failed write by returning       *)
(* False, which handle_event does not look at, so no entry changes.        *)
(***************************************************************************)
create_event_message(event_type, n) ==
    [type |-> "event", event |-> event_type, id |-> uuid4(n),
     fields |-> {"type", "event", "id", "timestamp", "data"},
     data |-> None, error |-> <<>>]

RECURSIVE handle_events(_, _, _)
\* the sends of the events `events`, fired one after the other, added to o
handle_events(o, events, n) ==
    IF events = <<>> THEN o
    ELSE handle_events(
             [c \in Clients |->
                 IF c \in DOMAIN clients /\ clients[c].connected
                     THEN Append(o[c], Sent(c, create_event_message(Head(events), n), NoRequest))
                     ELSE o[c]],
             Tail(events), n + 1)

(***************************************************************************)
(* uds/server.py                                                           *)
(***************************************************************************)
\* how many connections were accepted so far
Accepted == Cardinality({c \in Clients : pc[c] # "none"})

\* list(_clients.items()): the clients of the set in the order of the dict,
\* which is the order in which their entries were made
Snapshot ==
    CHOOSE q \in [1..Cardinality(DOMAIN clients) -> DOMAIN clients] :
        \A i, j \in DOMAIN q : i < j => clients[q[i]].order < clients[q[j]].order

\* Accept in a server that runs the handlers in the thread of the accept
\* loop: no connection is accepted while a handler runs
Accept_serial(c) ==
    /\ running
    /\ pc[c] = "none"
    /\ \A d \in Clients : pc[d] # "process"
    /\ clients' = [k \in DOMAIN clients \cup {c} |->
                      IF k = c THEN [connected |-> TRUE, last_activity |-> now,
                                     last_keepalive |-> now, order |-> Accepted + 1]
                      ELSE clients[k]]
    /\ pc' = [pc EXCEPT ![c] = "loop"]
    /\ peerOpen' = [peerOpen EXCEPT ![c] = TRUE]
    /\ sockTimeout' = [sockTimeout EXCEPT ![c] = 600]
    /\ UNCHANGED <<lifecycle, codec, original_timeout, threads, published, stopper, running,
                   command_handlers, request, response, sockClosed, inbox, out, calls,
                   background, uuidCount, now, framesSent, closedBy>>

\* _server_loop: one connection accepted, its entry made and its thread
\* started; the thread sets the initial timeout of 10 minutes
Accept(c) ==
    /\ running
    /\ pc[c] = "none"
    /\ clients' = [k \in DOMAIN clients \cup {c} |->
                      IF k = c THEN [connected |-> TRUE, last_activity |-> now,
                                     last_keepalive |-> now, order |-> Accepted + 1]
                      ELSE clients[k]]
    /\ pc' = [pc EXCEPT ![c] = "loop"]
    /\ peerOpen' = [peerOpen EXCEPT ![c] = TRUE]
    /\ sockTimeout' = [sockTimeout EXCEPT ![c] = 600]
    /\ UNCHANGED <<lifecycle, codec, original_timeout, threads, published, stopper, running, command_handlers, request, response, sockClosed, inbox,
                   out, calls, background, uuidCount, now, framesSent, closedBy>>

\* Finally with the entry of the client left in the set
Finally_leak(c, why) ==
    /\ closedBy' = [closedBy EXCEPT ![c] = why]
    /\ sockClosed' = [sockClosed EXCEPT ![c] = TRUE]
    /\ clients' = clients
    /\ pc' = [pc EXCEPT ![c] = "done"]

\* the loop left and the `finally` of _handle_client: the socket closed, the
\* entry deleted.  `why` is the way the loop ended: "loop_end" (the condition
\* of the while is false), "no_data" (read_json_message returned None, logged
\* as "No data received") or "server_error" (the `except Exception` branch)
Finally(c, why) ==
    /\ closedBy' = [closedBy EXCEPT ![c] = why]
    /\ sockClosed' = [sockClosed EXCEPT ![c] = TRUE]
    /\ clients' = [k \in DOMAIN clients \ {c} |-> clients[k]]
    /\ pc' = [pc EXCEPT ![c] = "done"]

\* LoopCond without the test of _running
LoopCond_unflagged(c) == c \in DOMAIN clients /\ clients[c].connected

\* the condition of the while loop of _handle_client
LoopCond(c) == running /\ c \in DOMAIN clients /\ clients[c].connected

\* the timeout read_json_message sets on entry, whatever the loop had set
ReadTimeoutSeconds == 120

\* the test of the while loop; when it holds, read_json_message is entered:
\* it saves the timeout of the socket and sets its own
LoopCheck(c) ==
    /\ pc[c] = "loop"
    /\ IF LoopCond(c)
           THEN /\ pc' = [pc EXCEPT ![c] = "read"]
                /\ original_timeout' = [original_timeout EXCEPT ![c] = sockTimeout[c]]
                /\ sockTimeout' = [sockTimeout EXCEPT ![c] = ReadTimeoutSeconds]
                /\ UNCHANGED <<clients, sockClosed, closedBy>>
           ELSE /\ Finally(c, "loop_end")
                /\ UNCHANGED <<original_timeout, sockTimeout>>
    /\ UNCHANGED <<lifecycle, codec, threads, published, stopper, running, command_handlers, request,
                   response, peerOpen, inbox, out, calls, background, uuidCount, now,
                   framesSent>>

\* read_json_message returns None and the loop breaks
ReadNone(c) ==
    /\ Finally(c, "no_data")
    /\ UNCHANGED <<lifecycle, codec, original_timeout, threads, published, stopper, running, command_handlers, request, response, sockTimeout, peerOpen,
                   inbox, out, calls, background, uuidCount, now, framesSent>>

\* the peer closed its end: recv returns no bytes
ReadEOF(c) ==
    /\ pc[c] = "read" /\ ~sockClosed[c]
    /\ inbox[c] = <<>> /\ ~peerOpen[c]
    /\ ReadNone(c)

\* nothing arrives during the 120 seconds read_json_message waits
ReadTimeout(c) ==
    /\ pc[c] = "read" /\ ~sockClosed[c]
    /\ inbox[c] = <<>> /\ peerOpen[c]
    /\ ReadNone(c)

\* the 120 seconds of read_json_message pass without a byte: recv raises
\* socket.timeout, which read_json_message catches to return None
ReadTimesOut(c) ==
    /\ pc[c] = "read" /\ ~sockClosed[c]
    /\ inbox[c] = <<>> /\ peerOpen[c]
    /\ now' = now + sockTimeout[c]
    /\ Finally(c, "no_data")
    /\ UNCHANGED <<lifecycle, codec, original_timeout, threads, published, stopper, running, command_handlers, request,
                   response, sockTimeout, peerOpen, inbox, out, calls, background,
                   uuidCount, framesSent>>

\* a minute passes while the handler of a request runs
HandlerRuns(c) ==
    /\ pc[c] = "process"
    /\ now < MaxClock
    /\ now' = now + 60
    /\ UNCHANGED <<lifecycle, codec, original_timeout, threads, published, stopper, running, clients, command_handlers, pc,
                   request, response, sockClosed, sockTimeout, peerOpen, inbox, out,
                   calls, background, uuidCount, framesSent, closedBy>>

\* stop() closed the socket under the blocked read
ReadClosed(c) ==
    /\ pc[c] = "read" /\ sockClosed[c]
    /\ ReadNone(c)

\* _handle_client from the parse of the data read up to the first call that
\* blocks: what the loop does with the document `data`, n uuids drawn so far.
\*   to         "send" (a response is ready) or "process" (process_request is next)
\*   next       after the send: "continue", "adjust" (the timeout) or "break"
\*   keepalive  whether the keepalive branch ran
\*   msg        the response that is ready
\* InvalidFormat with the connection closed after the response
InvalidFormat_break(n) ==
    [to |-> "send", next |-> "break", keepalive |-> FALSE,
     msg |-> create_error_response(<<"Invalid request format">>, None, n)]

\* parse_request returned None: "Invalid request format", then `continue`
InvalidFormat(n) ==
    [to |-> "send", next |-> "continue", keepalive |-> FALSE,
     msg |-> create_error_response(<<"Invalid request format">>, None, n)]

\* the `except Exception` branch: "Server error: ...", then `break`
ServerError(exc, n) ==
    [to |-> "send", next |-> "break", keepalive |-> FALSE,
     msg |-> create_error_response(<<"Server error: ">> \o exc, None, n)]

\* KeepalivePong without the keepalive entry of the data
KeepalivePong_plain(request_id, params) ==
    [to |-> "send", next |-> "continue", keepalive |-> TRUE,
     msg |-> create_success_response(request_id,
                 [message |-> "pong",
                  timestamp |-> IF "timestamp" \in DOMAIN params.d
                                    THEN params.d["timestamp"] ELSE "none"])]

\* the keepalive ping left to process_request like any other request
KeepalivePong_dispatch(request_id, params) ==
    [to |-> "process", next |-> "adjust", keepalive |-> FALSE, msg |-> None]

\* the keepalive branch: the pong, then `continue`
KeepalivePong(request_id, params) ==
    [to |-> "send", next |-> "continue", keepalive |-> TRUE,
     msg |-> create_success_response(request_id,
                 [message |-> "pong",
                  timestamp |-> IF "timestamp" \in DOMAIN params.d
                                    THEN params.d["timestamp"] ELSE "none",
                  keepalive |-> TRUE])]

\* Dispatch with the request left to somebody else: the loop goes on to read
Dispatch_async ==
    [to |-> "read", next |-> "none", keepalive |-> FALSE, msg |-> None]

\* every other request: process_request, the send, the timeout adjusted
Dispatch ==
    [to |-> "process", next |-> "adjust", keepalive |-> FALSE, msg |-> None]

receive(data, n) ==
    LET req == parse_request(data) IN
    IF req = None THEN InvalidFormat(n)
    ELSE LET command == req.d["command"].s
             request_id == req.d["id"].s
             params == RequestParams(req)
         IN  IF command = "ping" /\ ~IsDict(params)
                 THEN ServerError(AttributeError(params), n)
             ELSE IF command = "ping" /\ Truthy(params.d, "keepalive")
                 THEN KeepalivePong(request_id, params)
             ELSE Dispatch

\* the timeout of the socket when read_json_message returns: the saved one
\* restored once the whole payload is read (before it is decoded), the one
\* of the read left in force when the header was refused
TimeoutAfterRead(c, frame) ==
    IF frame.kind \in {"json", "badjson", "badutf8"}
        THEN original_timeout[c] ELSE sockTimeout[c]

\* read_json_message returned for the frame `frame`, the n-th of the
\* connection: the loop body up to the send or up to process_request
Received(c, frame, n) ==
    /\ request' = [request EXCEPT ![c] =
                      [frame |-> frame, n |-> n, current_time |-> now]]
    /\ IF read_json_message(frame) = None
           THEN /\ Finally(c, "no_data")
                /\ sockTimeout' = [sockTimeout EXCEPT ![c] = TimeoutAfterRead(c, frame)]
                /\ UNCHANGED <<response, uuidCount>>
           ELSE LET r == receive(read_json_message(frame), uuidCount) IN
                /\ clients' = [clients EXCEPT
                       ![c].last_activity = now,
                       ![c].last_keepalive = IF r.keepalive THEN now ELSE @]
                /\ sockTimeout' = [sockTimeout EXCEPT
                       ![c] = IF r.keepalive THEN 600
                              ELSE TimeoutAfterRead(c, frame)]
                /\ pc' = [pc EXCEPT ![c] = r.to]
                /\ response' = [response EXCEPT ![c] =
                       IF r.to = "send" THEN [msg |-> r.msg, next |-> r.next]
                       ELSE NoResponse]
                /\ uuidCount' = IF r.msg # None /\ r.msg.id \in Uuids
                                    THEN uuidCount + 1 ELSE uuidCount
                /\ UNCHANGED <<sockClosed, closedBy>>

\* the next frame of the inbox read whole
ReadMessage(c) ==
    /\ pc[c] = "read" /\ ~sockClosed[c]
    /\ inbox[c] # <<>>
    /\ c \in DOMAIN clients
    /\ inbox' = [inbox EXCEPT ![c] = Tail(inbox[c])]
    /\ Received(c, Head(inbox[c]).frame, Head(inbox[c]).n)
    /\ UNCHANGED <<lifecycle, codec, original_timeout, threads, published, stopper, running,
                   command_handlers, peerOpen, out, calls, background, now, framesSent>>

(***************************************************************************)
(* read_json_message recv by recv.  It is entered by LoopCheck; pc is      *)
(* "read" while it reads the header and "body" while it reads the payload. *)
(* recv(n) returns between one and n of the bytes that have arrived.       *)
(***************************************************************************)
Min(a, b) == IF a < b THEN a ELSE b

\* the bytes of the payload still to read
Remaining(c) == unpack(header[c]) - Len(message[c])

\* ReturnNone with the loop going on to its next iteration
ReturnNone_continue(c, why) ==
    /\ returned' = [returned EXCEPT
           ![c] = [value |-> None, why |-> why, n |-> request[c].n + 1,
                   at |-> IF pc[c] = "read" THEN "header" ELSE "body"]]
    /\ header' = [header EXCEPT ![c] = <<>>]
    /\ message' = [message EXCEPT ![c] = <<>>]
    /\ pc' = [pc EXCEPT ![c] = "loop"]
    /\ UNCHANGED <<clients, sockClosed, closedBy, request, response, sockTimeout,
                   uuidCount>>

\* read_json_message returns None at the place `why`, and the loop breaks
ReturnNone(c, why) ==
    /\ returned' = [returned EXCEPT
           ![c] = [value |-> None, why |-> why, n |-> request[c].n + 1,
                   at |-> IF pc[c] = "read" THEN "header" ELSE "body"]]
    /\ header' = [header EXCEPT ![c] = <<>>]
    /\ message' = [message EXCEPT ![c] = <<>>]
    /\ Finally(c, "no_data")
    /\ UNCHANGED <<request, response, sockTimeout, uuidCount>>

\* one recv of the header loop that returns bytes
RecvHeader(c) ==
    /\ pc[c] = "read" /\ ~sockClosed[c]
    /\ Len(header[c]) < 4 /\ stream[c] # <<>>
    /\ \E k \in 1..Min(4 - Len(header[c]), Len(stream[c])) :
           /\ header' = [header EXCEPT ![c] = @ \o SubSeq(stream[c], 1, k)]
           /\ stream' = [stream EXCEPT ![c] = SubSeq(@, k + 1, Len(@))]
    /\ UNCHANGED <<lifecycle, message, returned, peerReset, peerWrote, headersSent, original_timeout, threads,
                   published, stopper, running, clients, command_handlers, pc, request,
                   response, sockClosed, sockTimeout, peerOpen, inbox, out, calls,
                   background, uuidCount, now, framesSent, closedBy>>

\* the header is read: the tests of the declared length
CheckLength(c) ==
    /\ pc[c] = "read" /\ ~sockClosed[c]
    /\ Len(header[c]) = 4
    /\ IF TooLarge(unpack(header[c])) THEN ReturnNone(c, "too_large")
       ELSE IF unpack(header[c]) = 0 THEN ReturnNone(c, "zero")
       ELSE /\ pc' = [pc EXCEPT ![c] = "body"]
            /\ UNCHANGED <<header, message, returned, request, response, sockTimeout,
                           uuidCount, clients, sockClosed, closedBy>>
    /\ UNCHANGED <<lifecycle, stream, peerReset, peerWrote, headersSent, original_timeout, threads, published,
                   stopper, running, command_handlers, peerOpen, inbox, out, calls,
                   background, now, framesSent>>

\* one recv of the body loop that returns bytes
RecvBody(c) ==
    /\ pc[c] = "body" /\ ~sockClosed[c]
    /\ Remaining(c) > 0 /\ stream[c] # <<>>
    /\ \E k \in 1..Min(Min(8192, Remaining(c)), Len(stream[c])) :
           /\ message' = [message EXCEPT ![c] = @ \o SubSeq(stream[c], 1, k)]
           /\ stream' = [stream EXCEPT ![c] = SubSeq(@, k + 1, Len(@))]
    /\ UNCHANGED <<lifecycle, header, returned, peerReset, peerWrote, headersSent, original_timeout, threads,
                   published, stopper, running, clients, command_handlers, pc, request,
                   response, sockClosed, sockTimeout, peerOpen, inbox, out, calls,
                   background, uuidCount, now, framesSent, closedBy>>

\* a recv of the header loop or of the body loop that returns no bytes: the
\* peer reset the connection (ConnectionResetError), the peer closed its end
\* (recv returns b''), or nothing arrives within the timeout (socket.timeout)
RecvNothing(c) ==
    /\ pc[c] \in {"read", "body"} /\ ~sockClosed[c]
    /\ IF pc[c] = "read" THEN Len(header[c]) < 4 ELSE Remaining(c) > 0
    /\ stream[c] = <<>>
    /\ LET cause == IF peerReset[c] THEN "reset"
                    ELSE IF ~peerOpen[c] THEN "eof" ELSE "timeout"
       IN  /\ ReturnNone(c, cause)
           /\ now' = IF cause = "timeout" THEN now + sockTimeout[c] ELSE now
    /\ UNCHANGED <<lifecycle, stream, peerReset, peerWrote, headersSent, original_timeout, threads, published,
                   stopper, running, command_handlers, peerOpen, inbox, out, calls,
                   background, framesSent>>

\* the payload is read whole: the timeout restored, the payload decoded and
\* validated, and what the loop does with the value returned
Decode(c) ==
    /\ pc[c] = "body" /\ ~sockClosed[c]
    /\ Remaining(c) = 0
    /\ c \in DOMAIN clients
    /\ returned' = [returned EXCEPT ![c] =
           [value |-> IF FrameOf(message[c]).kind = "json"
                          THEN decode(message[c]) ELSE None,
            why |-> FrameOf(message[c]).kind,
            n |-> request[c].n + 1, at |-> "body"]]
    /\ header' = [header EXCEPT ![c] = <<>>]
    /\ message' = [message EXCEPT ![c] = <<>>]
    /\ Received(c, FrameOf(message[c]), request[c].n + 1)
    /\ UNCHANGED <<lifecycle, stream, peerReset, peerWrote, headersSent, original_timeout, threads, published,
                   stopper, running, command_handlers, peerOpen, inbox, out, calls,
                   background, now, framesSent>>

\* handlers.process_request for the request read: the handler runs to its end
ProcessRequest(c) ==
    /\ pc[c] = "process"
    /\ \E env \in ProcessEnv(request[c].frame.doc, command_handlers) :
         LET r == process_request(request[c].frame.doc, command_handlers, env, uuidCount)
             drawn == uuidCount + r.outcome.uuids
         IN  /\ response' = [response EXCEPT ![c] =
                    IF r.escaped
                        THEN [msg |-> ServerError(r.exc, drawn).msg, next |-> "break"]
                        ELSE [msg |-> r.response, next |-> "adjust"]]
             /\ calls' = IF r.handler = "none" THEN calls
                         ELSE Append(calls, [client |-> c, n |-> request[c].n,
                                             handler |-> r.handler,
                                             command |-> request[c].frame.doc.d["command"].s,
                                             spawned |-> IF r.outcome.spawn
                                                             THEN uuid4(uuidCount)
                                                             ELSE "none",
                                             collab |-> r.outcome.collab,
                                             cstatus |-> r.outcome.cstatus,
                                             raised |-> r.outcome.raised,
                                             msg |-> r.outcome.msg])
             /\ background' = IF r.outcome.spawn
                                  THEN background \cup {uuid4(uuidCount)}
                                  ELSE background
             /\ out' = handle_events(out, r.outcome.events, drawn)
             /\ uuidCount' = drawn + Len(r.outcome.events) + (IF r.escaped THEN 1 ELSE 0)
    /\ pc' = [pc EXCEPT ![c] = "send"]
    /\ UNCHANGED <<lifecycle, codec, original_timeout, threads, published, stopper, running, clients, command_handlers, request, sockClosed, sockTimeout,
                   peerOpen, inbox, now, framesSent, closedBy>>

\* the timeout the loop sets after a request that went through process_request
AdjustedTimeout(current_time, last_keepalive) ==
    IF current_time - last_keepalive < 300 THEN 600 ELSE 300

\* send_json_message for the response that is ready, and the rest of the
\* iteration
SendResponse(c) ==
    /\ pc[c] = "send"
    /\ LET first == Sent(c, response[c].msg, request[c]) IN
       CASE response[c].next = "continue" ->
               /\ out' = [out EXCEPT ![c] = Append(@, first)]
               /\ sockTimeout' = [sockTimeout EXCEPT ![c] = TimeoutAfterSend(c)]
               /\ pc' = [pc EXCEPT ![c] = "loop"]
               /\ UNCHANGED <<clients, sockClosed, uuidCount, closedBy>>
         [] response[c].next = "adjust" /\ c \in DOMAIN clients ->
               /\ out' = [out EXCEPT ![c] = Append(@, first)]
               /\ sockTimeout' = [sockTimeout EXCEPT ![c] =
                      AdjustedTimeout(request[c].current_time, clients[c].last_keepalive)]
               /\ pc' = [pc EXCEPT ![c] = "loop"]
               /\ UNCHANGED <<clients, sockClosed, uuidCount, closedBy>>
         [] response[c].next = "adjust" /\ c \notin DOMAIN clients ->
               \* _clients[client_id] raises KeyError: a second response, then break
               /\ out' = [out EXCEPT ![c] =
                      Append(Append(@, first),
                             Sent(c, create_error_response(<<"Server error: ", c>>,
                                                           None, uuidCount),
                                  request[c]))]
               /\ uuidCount' = uuidCount + 1
               /\ sockTimeout' = [sockTimeout EXCEPT ![c] = TimeoutAfterSend(c)]
               /\ Finally(c, "server_error")
         [] response[c].next = "break" ->
               /\ out' = [out EXCEPT ![c] = Append(@, first)]
               /\ sockTimeout' = [sockTimeout EXCEPT ![c] = TimeoutAfterSend(c)]
               /\ Finally(c, "server_error")
               /\ UNCHANGED uuidCount
    /\ response' = [response EXCEPT ![c] = NoResponse]
    /\ UNCHANGED <<lifecycle, codec, original_timeout, threads, published, stopper, running, command_handlers, request, peerOpen, inbox, calls,
                   background, now, framesSent>>

(***************************************************************************)
(* stop(), statement by statement: the flag cleared, the list of the       *)
(* clients taken, each socket of the list closed, the set cleared.  No     *)
(* statement of stop() or of any other function takes a lock.              *)
(***************************************************************************)
StopFlag ==
    /\ running /\ stopper.pc = "idle"
    /\ running' = FALSE
    /\ stopper' = [pc |-> "list", todo |-> <<>>]
    /\ UNCHANGED <<lifecycle, codec, original_timeout, clients, command_handlers, pc, request, response, sockClosed,
                   sockTimeout, peerOpen, inbox, out, calls, background, uuidCount, now,
                   framesSent, closedBy, threads, published>>

StopList ==
    /\ stopper.pc = "list"
    /\ stopper' = [pc |-> "close", todo |-> Snapshot]
    /\ UNCHANGED <<lifecycle, codec, original_timeout, running, clients, command_handlers, pc, request, response, sockClosed,
                   sockTimeout, peerOpen, inbox, out, calls, background, uuidCount, now,
                   framesSent, closedBy, threads, published>>

StopClose ==
    /\ stopper.pc = "close" /\ stopper.todo # <<>>
    /\ sockClosed' = [sockClosed EXCEPT ![Head(stopper.todo)] = TRUE]
    /\ stopper' = [stopper EXCEPT !.todo = Tail(@)]
    /\ UNCHANGED <<lifecycle, codec, original_timeout, running, clients, command_handlers, pc, request, response,
                   sockTimeout, peerOpen, inbox, out, calls, background, uuidCount, now,
                   framesSent, closedBy, threads, published>>

StopClear ==
    /\ stopper.pc = "close" /\ stopper.todo = <<>>
    /\ clients' = <<>>
    /\ stopper' = [pc |-> "done", todo |-> <<>>]
    /\ UNCHANGED <<lifecycle, codec, original_timeout, running, command_handlers, pc, request, response, sockClosed,
                   sockTimeout, peerOpen, inbox, out, calls, background, uuidCount, now,
                   framesSent, closedBy, threads, published>>

(***************************************************************************)
(* ytdlp_handler._background_playlist_download and the events it fires.    *)
(* fire_event calls handlers.handle_ytdlp_event, which calls               *)
(* server.handle_event, in the thread that fired the event; none of the    *)
(* three takes a lock.  A thread of `threads` is                           *)
(*   events  the events it still has to fire                               *)
(*   msg     the event message of the handle_event call it is in, or None  *)
(*   todo    the clients of that call's list it has not come to yet        *)
(*   result  what download_playlist returns to it                          *)
(*   fired   how many handle_event calls it made for the event it is       *)
(*           firing                                                        *)
(***************************************************************************)
\* BackgroundEvents with the error event fired after the completed one
BackgroundEvents_both(url, env) ==
    PlaylistEvents(url, env) \o <<"playlist_download_completed", "playlist_download_error">>

\* the events of one background download of a one-track playlist:
\* download_playlist reports a failure in its result, so the last event is
\* playlist_download_completed in every case
BackgroundEvents(url, env) ==
    PlaylistEvents(url, env) \o <<"playlist_download_completed">>

\* the thread of a playlist id starts to run the download of url
BackgroundStart(p, url) ==
    /\ p \in background /\ p \notin DOMAIN threads
    /\ \E env \in PlaylistEnv :
         threads' = [t \in DOMAIN threads \cup {p} |->
                        IF t = p THEN [events |-> BackgroundEvents(url, env), msg |-> None,
                                       todo |-> <<>>, fired |-> 0,
                                       result |-> download_playlist(url, env)]
                        ELSE threads[t]]
    /\ UNCHANGED <<lifecycle, codec, original_timeout, running, clients, command_handlers, pc, request, response, sockClosed,
                   sockTimeout, peerOpen, inbox, out, calls, background, uuidCount, now,
                   framesSent, closedBy, published, stopper>>

\* client_data['connected'] of a client of the list: no statement that can
\* be reached sets the flag to False, so the entry of a client that was
\* deleted since still holds True
Connected(c) == c \in DOMAIN clients => clients[c].connected

\* the clients of the set that are marked connected
ConnectedClients == {c \in DOMAIN clients : clients[c].connected}

\* how many times fire_event makes handle_event run for one event: once
\* for every listener of handlers._event_listeners, for every callback of
\* ytdlp_handler.event_callbacks (fire_event calls handle_ytdlp_event, which
\* calls the listeners)
Deliveries == Len(event_callbacks) * Len(event_listeners)

\* handle_event entered: the event message made and the list of the clients taken
PublishCall(t) ==
    /\ t \in DOMAIN threads
    /\ threads[t].msg = None /\ threads[t].events # <<>>
    /\ Deliveries > 0
    /\ LET event_message == create_event_message(Head(threads[t].events), uuidCount)
           last == threads[t].fired + 1 >= Deliveries
       IN
       /\ published' = Append(published, [msg |-> event_message, at |-> ConnectedClients,
                                          by |-> t])
       /\ threads' = [threads EXCEPT ![t] =
              [events |-> IF last THEN Tail(@.events) ELSE @.events,
               msg |-> IF Snapshot = <<>> THEN None ELSE event_message,
               todo |-> Snapshot,
               fired |-> IF last THEN 0 ELSE @.fired + 1,
               result |-> @.result]]
    /\ uuidCount' = uuidCount + 1
    /\ UNCHANGED <<lifecycle, codec, original_timeout, running, clients, command_handlers, pc, request, response, sockClosed,
                   sockTimeout, peerOpen, inbox, out, calls, background, now,
                   framesSent, closedBy, stopper>>

\* EventWritten with the broadcast given up at the first write that fails
EventWritten_abort(todo, ok) == IF ok THEN Tail(todo) ELSE <<>>

\* the rest of the list after send_json_message returned `ok` for its head:
\* handle_event does not look at the value
EventWritten(todo, ok) == Tail(todo)

\* one turn of the loop of handle_event: the next client of the list
PublishSend(t) ==
    /\ t \in DOMAIN threads
    /\ threads[t].msg # None
    /\ LET c == Head(threads[t].todo)
           rest == EventWritten(threads[t].todo, WriteOk(c))
       IN  /\ IF Connected(c)
                  THEN /\ out' = [out EXCEPT ![c] = Append(@, Sent(c, threads[t].msg, NoRequest))]
                       /\ sockTimeout' = [sockTimeout EXCEPT ![c] = TimeoutAfterSend(c)]
                  ELSE UNCHANGED <<out, sockTimeout>>
           /\ threads' = [threads EXCEPT ![t].todo = rest,
                                         ![t].msg = IF rest = <<>> THEN None ELSE @]
    /\ UNCHANGED <<lifecycle, codec, original_timeout, running, clients, command_handlers, pc, request, response, sockClosed,
                   peerOpen, inbox, calls, background, uuidCount, now, framesSent,
                   closedBy, published, stopper>>

\* uds_handler.register_command_handler, called by the hosting process while
\* it sets the server up: before the first connection is accepted
RegisterHandler(command, handler_func) ==
    /\ \A c \in Clients : pc[c] = "none"
    /\ command_handlers' = register_handler(command_handlers, command, handler_func)
    /\ UNCHANGED <<lifecycle, codec, original_timeout, threads, published, stopper, running, clients, pc, request, response, sockClosed, sockTimeout,
                   peerOpen, inbox, out, calls, background, uuidCount, now, framesSent, closedBy>>

(***************************************************************************)
(* The peers.                                                              *)
(***************************************************************************)
\* how many frames arrived on the connection so far
Arrived(c) ==
    IF inbox[c] # <<>> THEN inbox[c][Len(inbox[c])].n ELSE request[c].n

PeerSend(c, frame) ==
    /\ pc[c] \notin {"none", "done"} /\ peerOpen[c] /\ ~sockClosed[c]
    /\ framesSent < MaxFrames
    /\ framesSent' = framesSent + 1
    /\ inbox' = [inbox EXCEPT ![c] = Append(@, [frame |-> frame, n |-> Arrived(c) + 1])]
    /\ UNCHANGED <<lifecycle, codec, original_timeout, threads, published, stopper, running, clients, command_handlers, pc, request, response, sockClosed,
                   sockTimeout, peerOpen, out, calls, background, uuidCount, now, closedBy>>

PeerClose(c) ==
    /\ peerOpen[c]
    /\ peerOpen' = [peerOpen EXCEPT ![c] = FALSE]
    /\ UNCHANGED <<lifecycle, codec, original_timeout, threads, published, stopper, running, clients, command_handlers, pc, request, response, sockClosed,
                   sockTimeout, inbox, out, calls, background, uuidCount, now, framesSent, closedBy>>

\* Spec is the running server with one peer: the connections of Served are
\* accepted, stop() is not called
Served == {"c1"}

Next ==
    \/ \E c \in Served : Accept(c)
    \/ \E c \in Served : LoopCheck(c)
    \/ \E c \in Served : ReadMessage(c)
    \/ \E c \in Served : ReadEOF(c)
    \/ \E c \in Served : ReadTimeout(c)
    \/ \E c \in Served : ProcessRequest(c)
    \/ \E c \in Served : SendResponse(c)
    \/ \E h \in CustomHandlers : RegisterHandler("noop", h)
    \/ \E c \in Served : \E frame \in Frames(RequestId(Arrived(c) + 1)) : PeerSend(c, frame)
    \/ \E c \in Served : PeerClose(c)

Spec == Init /\ [][Next]_vars

(***************************************************************************)
(* What the properties below speak about.                                  *)
(***************************************************************************)
\* a frame whose payload is a JSON object with a string command and a string id
IsRequest(frame) ==
    /\ frame.kind = "json"
    /\ frame.doc.t = "obj"
    /\ "command" \in DOMAIN frame.doc.d /\ frame.doc.d["command"].t = "str"
    /\ "id" \in DOMAIN frame.doc.d /\ frame.doc.d["id"].t = "str"

CommandOf(frame) == frame.doc.d["command"].s

IdOf(frame) == frame.doc.d["id"].s

ParamsIn(frame) == RequestParams(frame.doc)

IsResponseEntry(e) == e.re > 0

\* the responses passed to send_json_message on a connection, in order
Responses(c) == SelectSeq(out[c], IsResponseEntry)

\* the responses of a connection with the request each answers: those passed
\* to send_json_message (written when ok) and the one about to be
Answers(c) ==
    {[n |-> out[c][i].re, frame |-> out[c][i].frame, msg |-> out[c][i].msg,
      written |-> out[c][i].ok] : i \in {j \in 1..Len(out[c]) : out[c][j].re > 0}}
    \cup (IF pc[c] = "send"
              THEN {[n |-> request[c].n, frame |-> request[c].frame,
                     msg |-> response[c].msg, written |-> FALSE]}
              ELSE {})

\* the responses written to a connection
WrittenAnswers(c) == {a \in Answers(c) : a.written}

\* the handler invocations made for the n-th request of connection c
CallsFor(c, n) ==
    {calls[i] : i \in {j \in 1..Len(calls) : calls[j].client = c /\ calls[j].n = n}}

\* the text `msg` occurs in the text `text`
Contains(text, msg) ==
    \E i \in 1..(Len(text) + 1) :
        /\ i + Len(msg) - 1 <= Len(text)
        /\ SubSeq(text, i, i + Len(msg) - 1) = msg

(***************************************************************************)
(* C1: every response to a request that parsed (string command, string id) *)
(* carries that request's id, on every path of the loop.  The loop         *)
(* violates it: a ping whose params is not an object raises in the         *)
(* keepalive test, and the `except Exception` branch answers with a fresh  *)
(* id.                                                                     *)
(***************************************************************************)
C1_ResponseEchoesId ==
    \A c \in Clients : \A a \in WrittenAnswers(c) :
        IsRequest(a.frame) => a.msg.id = IdOf(a.frame) /\ a.msg.id \notin Uuids

(***************************************************************************)
(* C2: on one connection the responses are passed to the send in the       *)
(* arrival order of their requests, and the loop reads request k+1 only    *)
(* after the response to request k was passed to the send: when the loop   *)
(* is at its read, every request read so far has its response; while a     *)
(* request is handled or its response is being sent, it is the only one    *)
(* without a response.                                                     *)
(***************************************************************************)
C2_InArrivalOrder ==
    \A c \in Clients :
        LET R == Responses(c) IN
        /\ \A i \in 1..Len(R) : R[i].re = i
        /\ pc[c] \in {"loop", "read"} => Len(R) = request[c].n
        /\ pc[c] \in {"process", "send"} => Len(R) = request[c].n - 1

\* two requests were answered, both responses written
C2_Witness ==
    \E c \in Clients :
        /\ Len(Responses(c)) = 2
        /\ \A i \in 1..2 : Responses(c)[i].ok /\ IsRequest(Responses(c)[i].frame)

(***************************************************************************)
(* C3: a request with a string command and a string id, whatever its       *)
(* params, is answered and the connection stays open: the loop ends only   *)
(* because a later read returned no data.  The loop violates it: the ping  *)
(* with params null is answered with "Server error" and the loop breaks.   *)
(***************************************************************************)
C3_RequestKeepsConnection ==
    \A c \in Clients :
        IsRequest(request[c].frame) =>
            /\ pc[c] = "process" \/ \E a \in Answers(c) : a.n = request[c].n
            /\ closedBy[c] \in {"none", "no_data"}
            /\ closedBy[c] = "none" => c \in DOMAIN clients /\ ~sockClosed[c]

(***************************************************************************)
(* C4: a complete frame whose payload is not valid JSON or not valid UTF-8 *)
(* is answered with an error response (and the connection stays Active).   *)
(* The loop violates it: read_json_message returns None for such a frame   *)
(* and the loop breaks without a response.                                 *)
(***************************************************************************)
C4_MalformedFrameAnswered ==
    \A c \in Clients :
        request[c].frame.kind \in {"badjson", "badutf8"} =>
            \E a \in Answers(c) : a.n = request[c].n /\ a.msg.status = "error"

(***************************************************************************)
(* C5: a JSON payload that is not an object with a string command and a    *)
(* string id makes parse_request return None; the response is an error     *)
(* whose id is a fresh uuid, not an id of the payload; and the loop goes   *)
(* on: it ends only because a later read returned no data.                 *)
(***************************************************************************)
C5_InvalidRequestAnswered ==
    \A c \in Clients :
        LET frame == request[c].frame IN
        (frame.kind = "json" /\ ~IsRequest(frame)) =>
            /\ parse_request(frame.doc) = None
            /\ pc[c] # "process"
            /\ \E a \in Answers(c) : a.n = request[c].n
            /\ \A a \in Answers(c) :
                   a.n = request[c].n =>
                       /\ a.msg.status = "error"
                       /\ a.msg.id \in Uuids
                       /\ a.msg.id \notin {RequestIds[i] : i \in 1..Len(RequestIds)}
            /\ closedBy[c] \in {"none", "no_data"}
            /\ closedBy[c] = "none" => c \in DOMAIN clients /\ ~sockClosed[c]

\* an invalid request was answered, the response written, and the loop is at
\* its next read
C5_Witness ==
    \E c \in Clients :
        /\ request[c].frame.kind = "json" /\ ~IsRequest(request[c].frame)
        /\ pc[c] = "read"
        /\ \E a \in Answers(c) : a.n = request[c].n /\ a.written

(***************************************************************************)
(* C6: a request whose command is not in the registry is answered with     *)
(* status error, the text "Unknown command: <name>" and the request's id,  *)
(* and no handler is invoked for it.                                       *)
(***************************************************************************)
C6_UnknownCommand ==
    \A c \in Clients : \A a \in Answers(c) :
        (IsRequest(a.frame) /\ CommandOf(a.frame) \notin DOMAIN command_handlers) =>
            /\ a.msg.status = "error"
            /\ a.msg.error = <<"Unknown command: ", CommandOf(a.frame)>>
            /\ a.msg.id = IdOf(a.frame)
            /\ CallsFor(c, a.n) = {}

\* the response to "frobnicate" was written
C6_Witness ==
    \E c \in Clients : \E a \in Answers(c) :
        IsRequest(a.frame) /\ CommandOf(a.frame) = "frobnicate" /\ a.written

(***************************************************************************)
(* C7: when a registered handler raises, process_request does not let the  *)
(* exception out: the request is answered with status error, the request's *)
(* id and a text that contains the exception's message.                    *)
(***************************************************************************)
C7_HandlerException ==
    \A i \in 1..Len(calls) :
        LET call == calls[i] IN
        call.raised =>
            /\ \E a \in Answers(call.client) : a.n = call.n
            /\ \A a \in Answers(call.client) :
                   a.n = call.n =>
                       /\ a.msg.status = "error"
                       /\ a.msg.id = IdOf(a.frame)
                       /\ Contains(a.msg.error, call.msg)
                       /\ SubSeq(a.msg.error, 1, 1) = <<"Error processing ">>

\* a handler raised and the error response was written
C7_Witness ==
    \E c \in Clients : \E call \in CallsFor(c, request[c].n) :
        /\ call.raised
        /\ \E a \in Answers(c) : a.n = call.n /\ a.written

(***************************************************************************)
(* C8: every response has status success or error and exactly one of data  *)
(* and error: data on success, error on failure.  create_success_response  *)
(* violates it for a registered handler that returns None: the response    *)
(* has status success and neither field.                                   *)
(***************************************************************************)
C8_DataXorError ==
    \A c \in Clients : \A a \in WrittenAnswers(c) :
        /\ a.msg.status \in {"success", "error"}
        /\ a.msg.status = "success" =>
               "data" \in a.msg.fields /\ "error" \notin a.msg.fields
        /\ a.msg.status = "error" =>
               "error" \in a.msg.fields /\ "data" \notin a.msg.fields

(***************************************************************************)
(* C9: the built-in commands called with their required parameters.        *)
(***************************************************************************)
BuiltIns ==
    {"ping", "search", "download_audio", "download_playlist",
     "start_playlist_download", "get_playlist_download_status"}

RequiredParam(command) ==
    CASE command = "search" -> {"query"}
      [] command \in {"download_audio", "download_playlist", "start_playlist_download"} ->
            {"url"}
      [] command = "get_playlist_download_status" -> {"playlist_id"}
      [] OTHER -> {}

\* a request for a built-in command, bound to its built-in handler, whose
\* params is an object that holds the required parameter, not empty
BuiltInCall(frame) ==
    /\ IsRequest(frame)
    /\ CommandOf(frame) \in BuiltIns
    /\ CommandOf(frame) \in DOMAIN command_handlers
    /\ command_handlers[CommandOf(frame)] = DefaultHandlers[CommandOf(frame)]
    /\ ParamsIn(frame).t = "obj"
    /\ \A k \in RequiredParam(CommandOf(frame)) :
           k \in DOMAIN ParamsIn(frame).d /\ ParamsIn(frame).d[k] # ""

\* C9 as claimed: every such request is answered with status success and its
\* id.  start_playlist_download violates it when the playlist information
\* cannot be fetched: the handler raises and the response is an error.
C9_BuiltInSucceeds ==
    \A c \in Clients : \A a \in WrittenAnswers(c) :
        BuiltInCall(a.frame) => a.msg.status = "success" /\ a.msg.id = IdOf(a.frame)

\* C9 as amended: every such request is answered with its id, and with
\* status success unless the collaborator called for it reported a failure.
C9_BuiltInAnswered ==
    \A c \in Clients : \A a \in Answers(c) :
        BuiltInCall(a.frame) =>
            /\ a.msg.id = IdOf(a.frame)
            /\ a.msg.status \in {"success", "error"}
            /\ a.msg.status = "error" =>
                   \E call \in CallsFor(c, a.n) : call.cstatus = "error"

\* a success response to a search and an error response to a
\* start_playlist_download whose collaborator failed, both written
C9_Witness ==
    \E c \in Clients : \E a, b \in Answers(c) :
        /\ BuiltInCall(a.frame) /\ CommandOf(a.frame) = "search"
        /\ a.written /\ a.msg.status = "success"
        /\ BuiltInCall(b.frame) /\ CommandOf(b.frame) = "start_playlist_download"
        /\ b.written /\ b.msg.status = "error"

(***************************************************************************)
(* C10: when the fetch collaborator fails for a download_audio request     *)
(* (its result reports a failure), the response has status error.  The     *)
(* handler violates it: download_audio reports every failure as a dict     *)
(* {"status": "error", ...}, which is not falsy, and the handler returns   *)
(* it as the data of a success response.                                   *)
(***************************************************************************)
C10_FailedFetchIsError ==
    \A c \in Clients : \A a \in WrittenAnswers(c) :
        \A call \in CallsFor(c, a.n) :
            (call.handler = "handle_download_audio" /\ call.cstatus = "error") =>
                a.msg.status = "error"

(***************************************************************************)
(* SpecRequired: the running server with one peer that asks for the        *)
(* commands that have a required parameter, with and without it.           *)
(***************************************************************************)
RequiredCommands ==
    {"search", "download_audio", "download_playlist", "start_playlist_download",
     "get_playlist_download_status"}

\* the requests: no params at all, empty params, the required parameter alone
RequiredDocs(id) ==
    UNION {{Req0(command, id), Req(command, id, EmptyDict)} : command \in RequiredCommands}
    \cup {Req("search", id, JObj([query |-> "q"])),
          Req("download_audio", id, JObj([url |-> UrlOk])),
          Req("get_playlist_download_status", id, JObj([playlist_id |-> "p1"]))}

RequiredFrames(id) == {[kind |-> "json", doc |-> doc] : doc \in RequiredDocs(id)}

NextRequired ==
    \/ \E c \in Served : Accept(c)
    \/ \E c \in Served : LoopCheck(c)
    \/ \E c \in Served : ReadMessage(c)
    \/ \E c \in Served : ReadEOF(c)
    \/ \E c \in Served : ProcessRequest(c)
    \/ \E c \in Served : SendResponse(c)
    \/ \E c \in Served : \E frame \in RequiredFrames(RequestId(Arrived(c) + 1)) :
           PeerSend(c, frame)
    \/ \E c \in Served : PeerClose(c)

SpecRequired == Init /\ [][NextRequired]_vars

\* a request for a command with a required parameter whose params is an
\* object without that parameter
LacksRequired(frame) ==
    /\ IsRequest(frame)
    /\ CommandOf(frame) \in RequiredCommands
    /\ ParamsIn(frame).t = "obj"
    /\ \E k \in RequiredParam(CommandOf(frame)) : k \notin DOMAIN ParamsIn(frame).d

(***************************************************************************)
(* C11: a request for search without query, for download_audio,            *)
(* download_playlist or start_playlist_download without url, or for        *)
(* get_playlist_download_status without playlist_id is answered with       *)
(* status error and the request's id, and no collaborator is called for    *)
(* it.                                                                     *)
(***************************************************************************)
C11_MissingParameter ==
    \A c \in Clients :
        /\ LacksRequired(request[c].frame) =>
               pc[c] = "process" \/ \E a \in Answers(c) : a.n = request[c].n
        /\ \A a \in Answers(c) :
               LacksRequired(a.frame) =>
                   /\ a.msg.status = "error"
                   /\ a.msg.id = IdOf(a.frame)
                   /\ \A call \in CallsFor(c, a.n) : call.collab = "none"

\* the error response to a search without query was written, and an earlier
\* request with its parameter went to its collaborator
C11_Witness ==
    \E c \in Clients : \E a \in Answers(c) :
        /\ LacksRequired(a.frame) /\ CommandOf(a.frame) = "search"
        /\ a.written /\ a.msg.status = "error"
        /\ \E call \in CallsFor(c, 1) : call.collab # "none"

(***************************************************************************)
(* C12: every ping request whose params carry keepalive = true is answered *)
(* with a success response whose data has keepalive = true and whose id is *)
(* the request's id.                                                       *)
(***************************************************************************)
KeepalivePing(frame) ==
    /\ IsRequest(frame)
    /\ CommandOf(frame) = "ping"
    /\ ParamsIn(frame).t = "obj"
    /\ "keepalive" \in DOMAIN ParamsIn(frame).d
    /\ ParamsIn(frame).d["keepalive"] = TRUE

C12_KeepalivePong ==
    \A c \in Clients :
        /\ KeepalivePing(request[c].frame) => \E a \in Answers(c) : a.n = request[c].n
        /\ \A a \in Answers(c) :
               KeepalivePing(a.frame) =>
                   /\ a.msg.status = "success"
                   /\ a.msg.id = IdOf(a.frame)
                   /\ "keepalive" \in DOMAIN a.msg.data
                   /\ a.msg.data.keepalive = TRUE

\* the pong to a keepalive ping was written
C12_Witness ==
    \E c \in Clients : \E a \in Answers(c) : KeepalivePing(a.frame) /\ a.written

(***************************************************************************)
(* SpecPublish: the running server with two peers.  The peer of Served     *)
(* starts background playlist downloads, the other one listens and may     *)
(* close its end.  The playlists are on a platform that is not allowed, so *)
(* that every background thread fires one event,                           *)
(* playlist_download_completed.                                            *)
(***************************************************************************)
PublishFrames(id) ==
    {[kind |-> "json",
      doc |-> Req("start_playlist_download", id, JObj([url |-> UrlBlocked]))]}

NextPublish ==
    \/ \E c \in Clients : Accept(c)
    \/ \E c \in Clients : LoopCheck(c)
    \/ \E c \in Clients : ReadMessage(c)
    \/ \E c \in Clients : ReadEOF(c)
    \/ \E c \in Clients : ProcessRequest(c)
    \/ \E c \in Clients : SendResponse(c)
    \/ \E c \in Served : \E frame \in PublishFrames(RequestId(Arrived(c) + 1)) :
           PeerSend(c, frame)
    \/ \E c \in Clients \ Served : PeerClose(c)
    \/ \E p \in background : BackgroundStart(p, UrlBlocked)
    \/ \E t \in DOMAIN threads : PublishCall(t)
    \/ \E t \in DOMAIN threads : PublishSend(t)

SpecPublish == Init /\ [][NextPublish]_vars

\* the handle_event call of published[i] has returned
Returned(i) == \A t \in DOMAIN threads : threads[t].msg # published[i].msg

\* the calls of send_json_message for the event message msg on connection c
EventWrites(c, msg) ==
    {i \in 1..Len(out[c]) : out[c][i].re = 0 /\ out[c][i].msg = msg}

\* the place of an event message in the order of the handle_event calls
PublishedAt(msg) == CHOOSE i \in 1..Len(published) : published[i].msg = msg

(***************************************************************************)
(* C13: a publish call does not raise, and a write that fails does not     *)
(* stop the broadcast: when the call has returned, the event was passed    *)
(* to send_json_message once for every client that was in the live-client  *)
(* set and marked connected when the call was made.                        *)
(***************************************************************************)
C13_BroadcastReachesAll ==
    \A i \in 1..Len(published) :
        Returned(i) =>
            \A c \in published[i].at : Cardinality(EventWrites(c, published[i].msg)) = 1

\* a broadcast to two clients has returned: the write to one failed, the
\* write to the other succeeded
C13_Witness ==
    \E i \in 1..Len(published) :
        /\ Returned(i)
        /\ \E a, b \in published[i].at :
              /\ \E k \in EventWrites(a, published[i].msg) : ~out[a][k].ok
              /\ \E k \in EventWrites(b, published[i].msg) : out[b][k].ok

(***************************************************************************)
(* C14: when the write of an event to a client fails during a broadcast,   *)
(* that client's connected flag is set to false.  handle_event violates    *)
(* it: send_json_message reports the failure by returning False, which     *)
(* handle_event ignores; the flag stays true.                              *)
(***************************************************************************)
C14_FailedWriteMarksClient ==
    \A c \in DOMAIN clients :
        (\E k \in 1..Len(out[c]) : out[c][k].re = 0 /\ ~out[c][k].ok) =>
            ~clients[c].connected

(***************************************************************************)
(* C16: a client receives the event frames in the order of the publish     *)
(* calls, also when the calls come from different background threads.      *)
(* handle_event violates it: two threads run their broadcasts at the same  *)
(* time, and the one that called later may write first.                    *)
(***************************************************************************)
C16_EventsInPublishOrder ==
    \A c \in Clients :
        \A i, j \in 1..Len(out[c]) :
            (i < j /\ out[c][i].re = 0 /\ out[c][j].re = 0 /\ out[c][i].ok /\ out[c][j].ok) =>
                PublishedAt(out[c][i].msg) < PublishedAt(out[c][j].msg)

(***************************************************************************)
(* SpecMany: the running server with two peers connected at the same       *)
(* time, each sending ping requests under ids of its own.                  *)
(***************************************************************************)
\* the id of the n-th request of a peer
PeerRequestIds ==
    [c1 |-> <<"a1", "a2", "a3", "a4", "a5">>, c2 |-> <<"b1", "b2", "b3", "b4", "b5">>]

ManyDocs(id) ==
    {Req0("ping", id),
     Req("ping", id, JObj([keepalive |-> TRUE])),
     Req("ping", id, [t |-> "null"])}

ManyFrames(c) ==
    {[kind |-> "json", doc |-> doc] : doc \in ManyDocs(PeerRequestIds[c][Arrived(c) + 1])}

NextMany ==
    \/ \E c \in Clients : Accept(c)
    \/ \E c \in Clients : LoopCheck(c)
    \/ \E c \in Clients : ReadMessage(c)
    \/ \E c \in Clients : ReadEOF(c)
    \/ \E c \in Clients : ProcessRequest(c)
    \/ \E c \in Clients : SendResponse(c)
    \/ \E c \in Clients : \E frame \in ManyFrames(c) : PeerSend(c, frame)
    \/ \E c \in Clients : PeerClose(c)

SpecMany == Init /\ [][NextMany]_vars

\* the ids of the requests that arrived on connection c
ArrivedIds(c) == {PeerRequestIds[c][n] : n \in 1..request[c].n}

(***************************************************************************)
(* C17: with the clients connected at the same time, every response is     *)
(* written to the connection its request arrived on, one response per      *)
(* request, carrying that request's id.  The loop violates the last part   *)
(* (see C1): the response to a ping whose params is not an object carries  *)
(* a fresh id.                                                             *)
(***************************************************************************)
C17_NoCrossTalk ==
    (\A k \in Clients : pc[k] # "none") =>
        \A c \in Clients :
            LET R == Responses(c) IN
            /\ \A i \in 1..Len(R) : R[i].re = i
            /\ \A i \in 1..Len(R) :
                   R[i].ok => R[i].msg.id = IdOf(R[i].frame) /\ R[i].msg.id \in ArrivedIds(c)

(***************************************************************************)
(* SpecShutdown: the server with two peers, one of which sends frames,     *)
(* and a thread that calls stop() at any time.                             *)
(***************************************************************************)
ShutdownFrames(id) ==
    {[kind |-> "json", doc |-> Req0("ping", id)],
     [kind |-> "json", doc |-> Req("ping", id, [t |-> "null"])],
     [kind |-> "badjson", doc |-> None]}

NextShutdown ==
    \/ \E c \in Clients : Accept(c)
    \/ \E c \in Clients : LoopCheck(c)
    \/ \E c \in Clients : ReadMessage(c)
    \/ \E c \in Clients : ReadEOF(c)
    \/ \E c \in Clients : ReadTimeout(c)
    \/ \E c \in Clients : ReadClosed(c)
    \/ \E c \in Clients : ProcessRequest(c)
    \/ \E c \in Clients : SendResponse(c)
    \/ \E c \in Served : \E frame \in ShutdownFrames(RequestId(Arrived(c) + 1)) :
           PeerSend(c, frame)
    \/ \E c \in Clients : PeerClose(c)
    \/ StopFlag
    \/ StopList
    \/ StopClose
    \/ StopClear

SpecShutdown == Init /\ [][NextShutdown]_vars

(***************************************************************************)
(* C18: the accesses to the live-client set exclude each other: while      *)
(* stop() is between taking its list of the clients and clearing the set,  *)
(* and while a broadcast is going through its list, no other thread        *)
(* inserts into the set, deletes from it or clears it.  The code violates  *)
(* it: it takes no lock, and the `finally` of a client thread deletes its  *)
(* entry while stop() is closing the sockets of its list.                  *)
(***************************************************************************)
C18_ExclusiveAccess ==
    [][/\ (stopper.pc = "close" /\ stopper' = stopper) => clients' = clients
       /\ \A t \in DOMAIN threads :
              (threads[t].msg # None /\ threads' = threads) => clients' = clients]_vars

(***************************************************************************)
(* C19: when the loop of a client has ended, by whatever path, the         *)
(* client's socket is closed and its id is not in the live-client set.     *)
(***************************************************************************)
C19_CleanupOnEveryPath ==
    \A c \in Clients : pc[c] = "done" => sockClosed[c] /\ c \notin DOMAIN clients

\* one loop ended in the `except Exception` branch, the other one because
\* stop() closed its socket
C19_Witness ==
    /\ pc["c1"] = "done" /\ closedBy["c1"] = "server_error"
    /\ pc["c2"] = "done" /\ closedBy["c2"] = "no_data"
    /\ stopper.pc = "done"

(***************************************************************************)
(* SpecTime: the running server with one peer, and a clock: a handler may  *)
(* run for minutes, and a read that gets no byte times out after the 120   *)
(* seconds read_json_message sets.                                         *)
(***************************************************************************)
TimeFrames(id) ==
    {[kind |-> "json", doc |-> Req0("ping", id)],
     [kind |-> "json", doc |-> Req("ping", id, JObj([keepalive |-> TRUE]))]}

NextTime ==
    \/ \E c \in Served : Accept(c)
    \/ \E c \in Served : LoopCheck(c)
    \/ \E c \in Served : ReadMessage(c)
    \/ \E c \in Served : ReadEOF(c)
    \/ \E c \in Served : ReadTimesOut(c)
    \/ \E c \in Served : ProcessRequest(c)
    \/ \E c \in Served : HandlerRuns(c)
    \/ \E c \in Served : SendResponse(c)
    \/ \E c \in Served : \E frame \in TimeFrames(RequestId(Arrived(c) + 1)) :
           PeerSend(c, frame)
    \/ \E c \in Served : PeerClose(c)

SpecTime == Init /\ [][NextTime]_vars

\* this step is the return of a read of connection c that timed out: the
\* read returns although no frame is there, the peer has not closed its end
\* and the socket is open
ReadTimedOut(c) ==
    /\ pc[c] = "read" /\ pc'[c] # "read"
    /\ inbox[c] = <<>> /\ peerOpen[c] /\ ~sockClosed[c]

(***************************************************************************)
(* C20: when a read times out while the client's last keepalive is at most *)
(* 10 minutes old and its last activity at most 5 minutes old, the         *)
(* connection is not closed: the client stays in the live-client set, the  *)
(* read timeout becomes 2 minutes and the loop waits for the next message. *)
(* The code violates it: read_json_message catches the timeout itself and  *)
(* returns None, and the loop takes None for the end of the connection.    *)
(***************************************************************************)
C20_RecentClientSurvivesTimeout ==
    [][\A c \in Clients :
          (/\ ReadTimedOut(c)
           /\ now' - clients[c].last_keepalive <= 600
           /\ now' - clients[c].last_activity <= 300) =>
              /\ c \in DOMAIN clients' /\ ~sockClosed'[c]
              /\ sockTimeout'[c] = 120
              /\ pc'[c] \in {"loop", "read"}]_vars

\* the read of connection c that is in progress follows the response, written
\* to the peer, to a request that was not a keepalive ping
ReadsAfterRequest(c) ==
    /\ pc[c] = "read" /\ c \in DOMAIN clients
    /\ IsRequest(request[c].frame) /\ ~KeepalivePing(request[c].frame)
    /\ out[c] # <<>>
    /\ LET last == out[c][Len(out[c])] IN last.re = request[c].n /\ last.ok

(***************************************************************************)
(* C21: after the response to a non-keepalive request has been sent, the   *)
(* timeout that bounds the next read of the connection is 10 minutes if a  *)
(* keepalive was received within the 5 minutes before, and 5 minutes       *)
(* otherwise.  The code violates it: the loop sets 600 or 300 on the       *)
(* socket, and read_json_message replaces it by its own 120 seconds before *)
(* its first recv.                                                         *)
(***************************************************************************)
C21_AdaptiveReadTimeout ==
    \A c \in Clients :
        ReadsAfterRequest(c) =>
            sockTimeout[c] = IF request[c].current_time - clients[c].last_keepalive < 300
                                 THEN 600 ELSE 300

(***************************************************************************)
(* SpecCodec: one connection whose peer writes bytes.  What a peer writes  *)
(* at once is a whole frame (the header and the payload, as                *)
(* send_json_message writes them), the beginning of a frame, or a header   *)
(* that declares the length zero or a length above the limit.              *)
(***************************************************************************)
FrameScripts ==
    {[kind |-> "frame", payload |-> p, bytes |-> Written(p)] : p \in Payloads}

\* a frame cut in the header, after the header, or before its last byte
TruncatedScripts ==
    {[kind |-> "truncated", payload |-> p, bytes |-> SubSeq(Written(p), 1, k)] :
        p \in Payloads, k \in {2, 4}} \cup
    {[kind |-> "truncated", payload |-> p,
      bytes |-> SubSeq(Written(p), 1, Len(Written(p)) - 1)] : p \in Payloads}

\* the payload bytes that follow a header which declares more than they are
Excess == <<49>>

HeaderScripts ==
    {[kind |-> "zero", payload |-> <<>>, bytes |-> pack(0)],
     [kind |-> "oversize", payload |-> Excess, bytes |-> pack(MaxMessageLength + 1) \o Excess],
     [kind |-> "truncated", payload |-> Excess, bytes |-> pack(MaxMessageLength) \o Excess]}

Scripts == FrameScripts \cup TruncatedScripts \cup HeaderScripts

\* the peer writes the bytes of a script; after the beginning of a frame it
\* writes nothing more
PeerWrite(c, script) ==
    /\ pc[c] \notin {"none", "done"} /\ peerOpen[c] /\ ~sockClosed[c]
    /\ Len(peerWrote[c]) < MaxWrites
    /\ \A i \in DOMAIN peerWrote[c] : peerWrote[c][i].kind = "frame"
    /\ stream' = [stream EXCEPT ![c] = @ \o script.bytes]
    /\ peerWrote' = [peerWrote EXCEPT ![c] = Append(@, script)]
    /\ UNCHANGED <<lifecycle, header, message, returned, peerReset, headersSent,
                   original_timeout, threads,
                   published, stopper, running, clients, command_handlers, pc, request,
                   response, sockClosed, sockTimeout, peerOpen, inbox, out, calls,
                   background, uuidCount, now, framesSent, closedBy>>

\* the peer resets the connection while the server serves it: what the
\* server has not received is lost
PeerReset(c) ==
    /\ pc[c] \notin {"none", "done"} /\ peerOpen[c] /\ ~sockClosed[c]
    /\ peerOpen' = [peerOpen EXCEPT ![c] = FALSE]
    /\ peerReset' = [peerReset EXCEPT ![c] = TRUE]
    /\ stream' = [stream EXCEPT ![c] = <<>>]
    /\ UNCHANGED <<lifecycle, header, message, returned, peerWrote, headersSent, original_timeout, threads,
                   published, stopper, running, clients, command_handlers, pc, request,
                   response, sockClosed, sockTimeout, inbox, out, calls, background,
                   uuidCount, now, framesSent, closedBy>>

NextCodec ==
    \/ \E c \in Served : Accept(c)
    \/ \E c \in Served : LoopCheck(c)
    \/ \E c \in Served : RecvHeader(c)
    \/ \E c \in Served : CheckLength(c)
    \/ \E c \in Served : RecvBody(c)
    \/ \E c \in Served : RecvNothing(c)
    \/ \E c \in Served : Decode(c)
    \/ \E c \in Served : SendResponse(c)
    \/ \E c \in Served : \E script \in Scripts : PeerWrite(c, script)
    \/ \E c \in Served : PeerClose(c)
    \/ \E c \in Served : PeerReset(c)

SpecCodec == Init /\ [][NextCodec]_vars

\* no response to the n-th read of the connection was passed to
\* send_json_message
NoResponseFor(c, n) == \A i \in DOMAIN out[c] : out[c][i].re # n

\* the loop of the connection has ended and the connection is closed
Closed(c) == pc[c] = "done" /\ sockClosed[c] /\ c \notin DOMAIN clients

(***************************************************************************)
(* C22: when the peer closes the connection (EOF, also in the middle of    *)
(* the 4-byte header) or the connection is reset while the server reads,   *)
(* the per-client loop ends and the connection is closed, and no response  *)
(* frame is written for that read.                                         *)
(***************************************************************************)
C22_PeerGoneEndsLoop ==
    \A c \in Clients :
        returned[c].why \in {"eof", "reset"} =>
            Closed(c) /\ NoResponseFor(c, returned[c].n)

\* the peer wrote two bytes of a header and closed; the read ended on EOF
C22_Witness ==
    \E c \in Clients :
        /\ returned[c].why = "eof" /\ returned[c].at = "header"
        /\ Len(peerWrote[c]) = 1 /\ Len(peerWrote[c][1].bytes) = 2
        /\ stream[c] = <<>>
        /\ Closed(c)

\* the n-th thing the peer of c wrote is a header that declares the length
\* zero or a length above 100 MiB, and the peer did not reset the connection
RefusedHeader(c, n) ==
    /\ n \in DOMAIN peerWrote[c]
    /\ peerWrote[c][n].kind \in {"zero", "oversize"}
    /\ ~peerReset[c]

(***************************************************************************)
(* C23: a frame header that declares a length of zero or a length above    *)
(* 100 MiB makes the read fail and the connection close; no payload byte   *)
(* is read from the stream after the header, and no response is written.   *)
(***************************************************************************)
C23_RefusedLength ==
    \A c \in Clients :
        /\ RefusedHeader(c, request[c].n + 1) =>
               pc[c] # "body" /\ message[c] = <<>>
        /\ (returned[c].why # "none" /\ RefusedHeader(c, returned[c].n)) =>
               /\ returned[c].why \in {"zero", "too_large"}
               /\ returned[c].value = None
               /\ Closed(c)
               /\ NoResponseFor(c, returned[c].n)
               /\ stream[c] = peerWrote[c][returned[c].n].payload

\* a header declaring 100 MiB + 1 was refused and the byte after it is unread
C23_Witness ==
    \E c \in Clients :
        /\ returned[c].why = "too_large"
        /\ RefusedHeader(c, returned[c].n)
        /\ peerWrote[c][returned[c].n].bytes = pack(MaxMessageLength + 1) \o Excess
        /\ stream[c] = Excess
        /\ Closed(c)

\* the n-th thing the peer of c wrote is a message written as
\* send_json_message writes it, and the peer did not reset the connection
WroteMessage(c, n) ==
    /\ n \in DOMAIN peerWrote[c]
    /\ peerWrote[c][n].kind = "frame"
    /\ peerWrote[c][n].payload \in JsonTexts
    /\ ~peerReset[c]

(***************************************************************************)
(* C24: framing round trip.  A message written by send_json_message and    *)
(* read back by read_json_message yields the original payload, however     *)
(* the stream splits the bytes into partial reads; and a stream that ends  *)
(* before the declared length is complete makes the read return a failure, *)
(* never a partial payload.                                                *)
(***************************************************************************)
C24_FramingRoundTrip ==
    \A c \in Clients :
        returned[c].why # "none" =>
            /\ WroteMessage(c, returned[c].n) =>
                   /\ returned[c].why = "json"
                   /\ returned[c].value = decode(peerWrote[c][returned[c].n].payload)
            /\ returned[c].why = "json" =>
                   /\ returned[c].n \in DOMAIN peerWrote[c]
                   /\ peerWrote[c][returned[c].n].kind = "frame"
                   /\ returned[c].value = decode(peerWrote[c][returned[c].n].payload)
            /\ (/\ returned[c].n \in DOMAIN peerWrote[c]
                /\ peerWrote[c][returned[c].n].kind = "truncated") =>
                   /\ returned[c].why \in {"eof", "reset", "timeout"}
                   /\ returned[c].value = None

\* a message of the greatest length was written and read back
C24_Witness ==
    \E c \in Clients :
        /\ WroteMessage(c, returned[c].n)
        /\ Len(peerWrote[c][returned[c].n].payload) = MaxLen
        /\ returned[c].value = decode(peerWrote[c][returned[c].n].payload)
        /\ stream[c] = <<>>

(***************************************************************************)
(* SpecCodecPair: two connections whose reads fail in different ways.  The *)
(* peers write a payload that does not decode, one that does not parse, or *)
(* nothing.                                                                *)
(***************************************************************************)
PairScripts ==
    {[kind |-> "frame", payload |-> p, bytes |-> Written(p)] : p \in {<<255>>, <<34>>}}

NextCodecPair ==
    \/ \E c \in Clients : Accept(c)
    \/ \E c \in Clients : LoopCheck(c)
    \/ \E c \in Clients : RecvHeader(c)
    \/ \E c \in Clients : CheckLength(c)
    \/ \E c \in Clients : RecvBody(c)
    \/ \E c \in Clients : RecvNothing(c)
    \/ \E c \in Clients : Decode(c)
    \/ \E c \in Clients : \E script \in PairScripts : PeerWrite(c, script)
    \/ \E c \in Clients : PeerClose(c)
    \/ \E c \in Clients : PeerReset(c)

SpecCodecPair == Init /\ [][NextCodecPair]_vars

\* the kinds of failure of a read that must not be taken for each other
Confusable ==
    {<<"timeout", "reset">>, <<"badutf8", "eof">>, <<"badjson", "eof">>}

(***************************************************************************)
(* C25: read_json_message reports its kinds of failure as distinguishable  *)
(* outcomes: a timeout returns something else than a connection reset, and *)
(* a payload that fails UTF-8 decoding or JSON parsing returns something   *)
(* else than EOF.  The code violates it: every failure returns None.       *)
(***************************************************************************)
C25_FailuresDistinct ==
    \A a, b \in Clients :
        <<returned[a].why, returned[b].why>> \in Confusable =>
            returned[a].value # returned[b].value

(***************************************************************************)
(* uds_handler.py initialize, start_server and stop_server, with           *)
(* uds/server.py start and stop under them, and _server_loop statement by  *)
(* statement.  One thread makes the calls, one after the other; each call  *)
(* adds an entry to `results`: the function, what it returned, whether the *)
(* server was running when it was called, and whether the state of the     *)
(* server after the call differs from the one before.                      *)
(***************************************************************************)
\* the process before main.py has called anything: a file may be left at the
\* socket path by an earlier process
InitBoot ==
    /\ running = FALSE
    /\ clients = <<>>
    /\ command_handlers = <<>>
    /\ pc = [c \in Clients |-> "none"]
    /\ request = [c \in Clients |-> NoRequest]
    /\ response = [c \in Clients |-> NoResponse]
    /\ sockClosed = [c \in Clients |-> FALSE]
    /\ sockTimeout = [c \in Clients |-> 0]
    /\ original_timeout = [c \in Clients |-> 0]
    /\ stream = [c \in Clients |-> <<>>]
    /\ header = [c \in Clients |-> <<>>]
    /\ message = [c \in Clients |-> <<>>]
    /\ returned = [c \in Clients |-> NotReturned]
    /\ peerReset = [c \in Clients |-> FALSE]
    /\ peerWrote = [c \in Clients |-> <<>>]
    /\ headersSent = [c \in Clients |-> <<>>]
    /\ peerOpen = [c \in Clients |-> FALSE]
    /\ inbox = [c \in Clients |-> <<>>]
    /\ out = [c \in Clients |-> <<>>]
    /\ calls = <<>>
    /\ background = {}
    /\ uuidCount = 0
    /\ now = 0
    /\ framesSent = 0
    /\ closedBy = [c \in Clients |-> "none"]
    /\ threads = <<>>
    /\ published = <<>>
    /\ stopper = NotStopping
    /\ socketFile \in {"none", "stale"}
    /\ listener = "none"
    /\ acceptor = [pc |-> "none", client |-> "none"]
    /\ server_running = FALSE
    /\ initialized = FALSE
    /\ event_callbacks = <<>>
    /\ event_listeners = <<>>
    /\ results = <<>>

\* what a call must leave alone when it refuses to act
Observed ==
    <<running, listener, acceptor, clients, sockClosed, socketFile, server_running>>

\* the variables of the connections, which no call of this section touches
connections ==
    <<original_timeout, threads, published, request, response, sockTimeout, peerOpen,
      inbox, out, calls, background, uuidCount, now, framesSent, closedBy, pc>>

Result(op, value, was_running, changed) ==
    [op |-> op, value |-> value, was_running |-> was_running, changed |-> changed]

\* initialize without the removal of the file
Initialize_keepfile ==
    /\ ~initialized /\ stopper.pc = "idle"
    /\ initialized' = TRUE
    /\ command_handlers' = DefaultHandlers
    /\ event_callbacks' = register_event_callback(event_callbacks, "handle_ytdlp_event")
    /\ event_listeners' = register_event_listener(event_listeners, "handle_event")
    /\ results' = Append(results, Result("initialize", TRUE, FALSE, FALSE))
    /\ UNCHANGED <<socketFile, codec, connections, running, clients, sockClosed, stopper,
                   listener, acceptor, server_running>>

\* uds_handler.initialize: the modules initialised (the default handlers
\* registered), the file at the socket path removed when there is one
Initialize ==
    /\ ~initialized /\ stopper.pc = "idle"
    /\ initialized' = TRUE
    /\ command_handlers' = DefaultHandlers
    /\ event_callbacks' = register_event_callback(event_callbacks, "handle_ytdlp_event")
    /\ event_listeners' = register_event_listener(event_listeners, "handle_event")
    /\ socketFile' = "none"
    /\ results' = Append(results, Result("initialize", TRUE, FALSE, socketFile # "none"))
    /\ UNCHANGED <<codec, connections, running, clients, sockClosed, stopper,
                   listener, acceptor, server_running>>

\* StartRefused that goes on into server.start past its test of _running:
\* a socket is made, bind fails on the file that is there, and the except
\* branch closes the socket and sets _socket to None
StartRefused_rebind ==
    /\ listener' = "none"
    /\ server_running' = FALSE
    /\ UNCHANGED <<running, acceptor, clients, sockClosed, socketFile>>
    /\ results' = Append(results, Result("start", FALSE, TRUE, Observed' # Observed))

\* start_server while _server_running (and server.start while _running):
\* False, nothing else
StartRefused ==
    /\ UNCHANGED <<running, listener, acceptor, clients, sockClosed, socketFile,
                   server_running>>
    /\ results' = Append(results, Result("start", FALSE, TRUE, Observed' # Observed))

\* server.start on a server that is not running: bind raises when a file is
\* at the path (the except branch closes the socket and returns False);
\* otherwise bind makes the file, the flag is set and the thread started
StartFresh ==
    /\ IF socketFile # "none"
           THEN /\ listener' = "none"
                /\ server_running' = FALSE
                /\ UNCHANGED <<running, acceptor, socketFile>>
           ELSE /\ listener' = "open"
                /\ socketFile' = "bound"
                /\ running' = TRUE
                /\ acceptor' = [pc |-> "check", client |-> "none"]
                /\ server_running' = TRUE
    /\ UNCHANGED <<clients, sockClosed>>
    /\ results' = Append(results, Result("start", running', FALSE, Observed' # Observed))

\* uds_handler.start_server
StartServer ==
    /\ initialized /\ stopper.pc = "idle"
    /\ Len(results) < MaxCalls
    /\ IF server_running \/ running THEN StartRefused ELSE StartFresh
    /\ UNCHANGED <<codec, connections, command_handlers, stopper, initialized, event_callbacks, event_listeners>>

\* StopRefused that removes the file at the socket path all the same
StopRefused_unlink ==
    /\ stopper.pc = "idle"
    /\ Len(results) < MaxCalls
    /\ ~(server_running /\ running)
    /\ socketFile' = "none"
    /\ UNCHANGED <<codec, connections, command_handlers, stopper, initialized, event_callbacks, event_listeners, running,
                   listener, acceptor, clients, sockClosed, server_running>>
    /\ results' = Append(results, Result("stop", FALSE, FALSE, Observed' # Observed))

\* stop_server while not _server_running (and server.stop while not
\* _running): False, nothing else
StopRefused ==
    /\ stopper.pc = "idle"
    /\ Len(results) < MaxCalls
    /\ ~(server_running /\ running)
    /\ UNCHANGED <<codec, connections, command_handlers, stopper, initialized, event_callbacks, event_listeners, running,
                   listener, acceptor, clients, sockClosed, socketFile, server_running>>
    /\ results' = Append(results, Result("stop", FALSE, FALSE, Observed' # Observed))

\* stop_server on a running server: server.stop is entered and clears the flag
StopBegin ==
    /\ Len(results) < MaxCalls
    /\ server_running
    /\ StopFlag

\* server.stop after the set is cleared: the listening socket closed
StopSocket ==
    /\ stopper.pc = "done"
    /\ listener' = "none"
    /\ stopper' = [pc |-> "join", todo |-> <<>>]
    /\ UNCHANGED <<codec, connections, command_handlers, running, clients, sockClosed,
                   socketFile, acceptor, server_running, initialized, event_callbacks, event_listeners, results>>

\* server.stop joins the thread of the accept loop and returns True
StopJoin ==
    /\ stopper.pc = "join"
    /\ acceptor.pc \in {"none", "exited"}
    /\ stopper' = [pc |-> "returned", todo |-> <<>>]
    /\ UNCHANGED <<codec, connections, command_handlers, running, clients, sockClosed,
                   lifecycle>>

\* StopServerDone with the file left at the path
StopServerDone_keepfile ==
    /\ stopper.pc = "returned"
    /\ server_running' = FALSE
    /\ results' = Append(results, Result("stop", TRUE, TRUE, TRUE))
    /\ stopper' = NotStopping
    /\ UNCHANGED <<socketFile, codec, connections, command_handlers, running, clients,
                   sockClosed, listener, acceptor, initialized, event_callbacks, event_listeners>>

\* stop_server after server.stop returned True: the flag cleared, the file
\* at the socket path removed
StopServerDone ==
    /\ stopper.pc = "returned"
    /\ server_running' = FALSE
    /\ socketFile' = "none"
    /\ results' = Append(results, Result("stop", TRUE, TRUE, TRUE))
    /\ stopper' = NotStopping
    /\ UNCHANGED <<codec, connections, command_handlers, running, clients, sockClosed,
                   listener, acceptor, initialized, event_callbacks, event_listeners>>

\* _server_loop: the test of the while
AcceptorCheck ==
    /\ acceptor.pc = "check"
    /\ acceptor' = [acceptor EXCEPT
           !.pc = IF running /\ listener = "open" THEN "accept" ELSE "exited"]
    /\ UNCHANGED <<codec, connections, command_handlers, running, clients, sockClosed,
                   stopper, socketFile, listener, server_running, initialized, event_callbacks, event_listeners, results>>

\* accept returns the connection of a peer
AcceptorTakes(c) ==
    /\ acceptor.pc = "accept" /\ listener = "open"
    /\ pc[c] = "none"
    /\ acceptor' = [pc |-> "accepted", client |-> c]
    /\ pc' = [pc EXCEPT ![c] = "accepted"]
    /\ peerOpen' = [peerOpen EXCEPT ![c] = TRUE]
    /\ UNCHANGED <<codec, original_timeout, threads, published, request, response,
                   sockTimeout, inbox, out, calls, background, uuidCount, now,
                   framesSent, closedBy, command_handlers, running, clients, sockClosed,
                   stopper, socketFile, listener, server_running, initialized, event_callbacks, event_listeners, results>>

\* accept returns without a connection: after its second of waiting
\* (socket.timeout, `continue`) or because the socket was closed (`break`)
AcceptorTimeout ==
    /\ acceptor.pc = "accept"
    /\ acceptor' = [acceptor EXCEPT
           !.pc = IF listener = "open" THEN "check" ELSE "exited"]
    /\ UNCHANGED <<codec, connections, command_handlers, running, clients, sockClosed,
                   stopper, socketFile, listener, server_running, initialized, event_callbacks, event_listeners, results>>

\* after accept: _socket.settimeout(None) raises when stop() has set _socket
\* to None (`break`: the connection is dropped and its socket closed with the
\* last reference to it); otherwise the entry is made and the thread started
AcceptorInsert ==
    /\ acceptor.pc = "accepted"
    /\ LET c == acceptor.client IN
       IF listener = "none"
           THEN /\ acceptor' = [pc |-> "exited", client |-> "none"]
                /\ sockClosed' = [sockClosed EXCEPT ![c] = TRUE]
                /\ pc' = [pc EXCEPT ![c] = "done"]
                /\ closedBy' = [closedBy EXCEPT ![c] = "dropped"]
                /\ UNCHANGED <<clients, sockTimeout>>
           ELSE /\ acceptor' = [pc |-> "check", client |-> "none"]
                /\ clients' = [k \in DOMAIN clients \cup {c} |->
                       IF k = c THEN [connected |-> TRUE, last_activity |-> now,
                                      last_keepalive |-> now, order |-> Accepted + 1]
                       ELSE clients[k]]
                /\ pc' = [pc EXCEPT ![c] = "loop"]
                /\ sockTimeout' = [sockTimeout EXCEPT ![c] = 600]
                /\ UNCHANGED <<sockClosed, closedBy>>
    /\ UNCHANGED <<codec, original_timeout, threads, published, request, response,
                   peerOpen, inbox, out, calls, background, uuidCount, now, framesSent,
                   command_handlers, running, stopper, socketFile, listener,
                   server_running, initialized, event_callbacks, event_listeners, results>>

NextLifecycle ==
    \/ Initialize
    \/ StartServer
    \/ StopRefused
    \/ StopBegin
    \/ StopList
    \/ StopClose
    \/ StopClear
    \/ StopSocket
    \/ StopJoin
    \/ StopServerDone
    \/ AcceptorCheck
    \/ \E c \in Clients : AcceptorTakes(c)
    \/ AcceptorTimeout
    \/ AcceptorInsert
    \/ \E c \in Clients : LoopCheck(c)
    \/ \E c \in Clients : ReadClosed(c)
    \/ \E c \in Clients : ReadEOF(c)
    \/ \E c \in Clients : PeerClose(c)

SpecLifecycle == InitBoot /\ [][NextLifecycle]_vars

(***************************************************************************)
(* C26: start() called while the server is running returns false and       *)
(* changes nothing: the listening socket, the accept loop, the running     *)
(* flag and the live-client set are as before the call.                    *)
(***************************************************************************)
C26_StartWhileRunning ==
    \A i \in DOMAIN results :
        (results[i].op = "start" /\ results[i].was_running) =>
            ~results[i].value /\ ~results[i].changed

\* start was refused on a running server that has a client
C26_Witness ==
    /\ results # <<>>
    /\ results[Len(results)].op = "start" /\ results[Len(results)].was_running
    /\ running /\ listener = "open" /\ clients # <<>>

\* the last call that returned
LastResult == results[Len(results)]

C28_StopWhileStopped ==
    \A i \in DOMAIN results :
        (results[i].op = "stop" /\ ~results[i].was_running) =>
            ~results[i].value /\ ~results[i].changed

\* a stop that succeeded, and the stop right after it refused
C28_Witness ==
    \E i \in DOMAIN results :
        /\ i + 1 \in DOMAIN results
        /\ results[i].op = "stop" /\ results[i].value
        /\ results[i + 1].op = "stop" /\ ~results[i + 1].was_running
        /\ ~results[i + 1].value

(***************************************************************************)
(* C29: when stop() returns true, the shutdown flag is set, the listening  *)
(* socket is closed, the live-client set is empty, and the socket of every *)
(* client connection accepted so far has been closed, including a          *)
(* connection that the accept loop accepted while stop() was executing.    *)
(* The code violates it: the accept loop makes the entry of a connection   *)
(* it has accepted whatever stop() has done in between.                    *)
(***************************************************************************)
C29_StopLeavesNothing ==
    stopper.pc = "returned" =>
        /\ ~running
        /\ listener = "none"
        /\ clients = <<>>
        /\ \A c \in Clients : pc[c] # "none" => sockClosed[c]

(***************************************************************************)
(* C30: after a stop of a running server has completed, the socket file no *)
(* longer exists at the configured path (until a later start binds it      *)
(* again).                                                                 *)
(***************************************************************************)
C30_NoFileAfterStop ==
    (/\ results # <<>>
     /\ LastResult.op = "stop" /\ LastResult.was_running /\ LastResult.value) =>
        socketFile = "none"

\* a stop of a running server that had bound the path has completed
C30_Witness ==
    /\ Len(results) >= 2
    /\ results[Len(results) - 1].op = "start" /\ results[Len(results) - 1].value
    /\ LastResult.op = "stop" /\ LastResult.was_running /\ LastResult.value
    /\ socketFile = "none"

(***************************************************************************)
(* SpecPlaylist: the running server with one peer that starts background   *)
(* downloads of playlists on an allowed platform.  The information of the  *)
(* playlist is fetched or not (InfoEnv), the download of its one track     *)
(* succeeds or the extraction raises (PlaylistEnv).  The threads of two    *)
(* downloads get to run, at the same time or one after the other.          *)
(***************************************************************************)
PlaylistFrames(id) ==
    {[kind |-> "json",
      doc |-> Req("start_playlist_download", id, JObj([url |-> UrlOk]))]}

NextPlaylist ==
    \/ \E c \in Served : Accept(c)
    \/ \E c \in Served : LoopCheck(c)
    \/ \E c \in Served : ReadMessage(c)
    \/ \E c \in Served : ProcessRequest(c)
    \/ \E c \in Served : SendResponse(c)
    \/ \E c \in Served : \E frame \in PlaylistFrames(RequestId(Arrived(c) + 1)) :
           PeerSend(c, frame)
    \/ \E p \in background : Cardinality(DOMAIN threads) <= 1 /\ BackgroundStart(p, UrlOk)
    \/ \E t \in DOMAIN threads : PublishCall(t)
    \/ \E t \in DOMAIN threads : PublishSend(t)

SpecPlaylist == Init /\ [][NextPlaylist]_vars

TerminalEvents == {"playlist_download_completed", "playlist_download_error"}

\* the handle_event calls so far for a terminal event of playlist p
TerminalOf(p) ==
    {i \in 1..Len(published) :
        published[i].by = p /\ published[i].msg.event \in TerminalEvents}

\* msg is the acknowledgement of start_playlist_download for playlist p
IsAck(msg, p) ==
    /\ msg.status = "success"
    /\ "playlist_id" \in DOMAIN msg.data
    /\ msg.data.playlist_id = p

(***************************************************************************)
(* C31: the acknowledgement of a start_playlist_download request (playlist *)
(* identifier, title, total track count) is written to the requesting      *)
(* client before the terminal event of that playlist is broadcast, and     *)
(* carries no per-item results.  The code violates the first part: the     *)
(* download thread is started before the handler returns and nothing makes *)
(* it wait for the write of the response.                                  *)
(***************************************************************************)
C31_AckBeforeTerminal ==
    \A c \in Clients : \A p \in background :
        /\ (pc[c] = "send" /\ IsAck(response[c].msg, p)) => TerminalOf(p) = {}
        /\ \A k \in 1..Len(out[c]) :
               IsAck(out[c][k].msg, p) =>
                   DOMAIN out[c][k].msg.data =
                       {"status", "playlist_id", "playlist_title", "total_tracks",
                        "is_playlist"}

\* the handle_event calls so far for a playlist_item_downloaded event of p
ItemsOf(p) ==
    {i \in 1..Len(published) :
        published[i].by = p /\ published[i].msg.event = "playlist_item_downloaded"}

\* the thread of p has fired its last event
Fired(p) == p \in DOMAIN threads /\ threads[p].events = <<>>

\* how many tracks the download of p downloaded
Successful(p) ==
    IF threads[p].result.status = "success"
        THEN threads[p].result.successful_downloads
        ELSE 0

BlockedFrames(c) ==
    IF c \in Served
        THEN {[kind |-> "json",
               doc |-> Req("download_audio", PeerRequestIds[c][Arrived(c) + 1],
                           JObj([url |-> UrlOk]))]}
        ELSE {[kind |-> "json", doc |-> Req0("ping", PeerRequestIds[c][Arrived(c) + 1])]}

NextBlocked ==
    \/ \E c \in Clients : Accept(c)
    \/ \E c \in Clients : LoopCheck(c)
    \/ \E c \in Clients : ReadMessage(c)
    \/ \E c \in Clients : ProcessRequest(c)
    \/ \E c \in Served : now = request[c].current_time /\ HandlerRuns(c)
    \/ \E c \in Clients : SendResponse(c)
    \/ \E c \in Clients : \E frame \in BlockedFrames(c) : PeerSend(c, frame)

SpecBlocked == Init /\ [][NextBlocked]_vars

\* the handler of connection c's request is in its fetch
Fetching(c) ==
    /\ pc[c] = "process"
    /\ IsRequest(request[c].frame) /\ CommandOf(request[c].frame) = "download_audio"

(***************************************************************************)
(* C33: while the handler of one connection is blocked in a long-running   *)
(* fetch, the accept loop can accept a new connection and the loop of      *)
(* every other connection can take its next step (test its condition, read *)
(* a request that has arrived, dispatch it, write its response): whether a *)
(* step of another connection can be taken depends on that connection      *)
(* alone.                                                                  *)
(***************************************************************************)
C33_FetchBlocksNobodyElse ==
    \A c \in Clients : \A d \in Clients \ {c} :
        Fetching(c) =>
            /\ pc[d] = "none" => ENABLED Accept(d)
            /\ pc[d] = "loop" => ENABLED LoopCheck(d)
            /\ (pc[d] = "read" /\ inbox[d] # <<>>) => ENABLED ReadMessage(d)
            /\ pc[d] = "process" => ENABLED ProcessRequest(d)
            /\ pc[d] = "send" => ENABLED SendResponse(d)

\* the fetch for one connection goes on, a minute after its request was
\* read, and meanwhile another connection was accepted and a request of it
\* read, dispatched and answered
C33_Witness ==
    \E c \in Clients : \E d \in Clients \ {c} :
        /\ Fetching(c) /\ now > request[c].current_time
        /\ d \in DOMAIN clients
        /\ clients[d].last_keepalive > request[c].current_time
        /\ clients[d].last_activity > request[c].current_time
        /\ pc[d] = "loop"
        /\ \E k \in 1..Len(out[d]) :
              /\ out[d][k].ok /\ out[d][k].re = request[d].n
              /\ \E i \in 1..Len(calls) :
                    calls[i].client = d /\ calls[i].n = request[d].n

(***************************************************************************)
(* SpecRegister: the running server with one peer, and the hosting process *)
(* calling register_command_handler at any time, with handlers that can be *)
(* called and with a value that cannot, for a name of its own and for the  *)
(* name of a built-in command.  A call is recorded in `results` with the   *)
(* registry before and after it and the number of handler invocations made *)
(* before it.                                                              *)
(***************************************************************************)
RegisterNames == {"noop", "ping"}

RegisterFrames(id) ==
    {[kind |-> "json", doc |-> Req0(command, id)] : command \in RegisterNames}

\* uds_handler.register_command_handler, which returns what
\* handlers.register_handler returns
RegisterCall(command, handler_func) ==
    /\ Len(results) <= MaxWrites
    /\ command_handlers' = register_handler(command_handlers, command, handler_func)
    /\ results' = Append(results,
           [op |-> "register", command |-> command, handler |-> handler_func,
            value |-> callable(handler_func), before |-> command_handlers,
            after |-> command_handlers', at |-> Len(calls)])
    /\ UNCHANGED <<socketFile, listener, acceptor, server_running, initialized, event_callbacks, event_listeners, codec,
                   connections, running, clients, sockClosed, stopper>>

NextRegister ==
    \/ \E c \in Served : Accept(c)
    \/ \E c \in Served : LoopCheck(c)
    \/ \E c \in Served : ReadMessage(c)
    \/ \E c \in Served : ProcessRequest(c)
    \/ \E c \in Served : SendResponse(c)
    \/ \E command \in RegisterNames : \E h \in CustomHandlers \cup {"not_callable"} :
           RegisterCall(command, h)
    \/ \E c \in Served : \E frame \in RegisterFrames(RequestId(Arrived(c) + 1)) :
           PeerSend(c, frame)

SpecRegister == Init /\ [][NextRegister]_vars

\* the registrations of the name `command` that returned true among the
\* first n calls of `results`
Bindings(command, n) ==
    {i \in 1..n : results[i].command = command /\ results[i].value}

\* the greatest element of a set of numbers that is not empty
Latest(S) == CHOOSE i \in S : \A j \in S : j <= i

\* the handler the name is bound to after the first n calls of `results`
BoundTo(command, n) ==
    IF Bindings(command, n) # {} THEN results[Latest(Bindings(command, n))].handler
    ELSE IF command \in DOMAIN DefaultHandlers THEN DefaultHandlers[command]
    ELSE "none"

\* how many calls of `results` were made before the i-th handler invocation
RegisteredBefore(i) == Cardinality({k \in 1..Len(results) : results[k].at < i})

(***************************************************************************)
(* C34: register(name, handler) returns false and leaves the registry      *)
(* unchanged when the handler cannot be called; otherwise it returns true  *)
(* and binds the name to the handler, replacing an earlier binding of the  *)
(* name, so that a later dispatch of the name invokes the handler that was *)
(* registered last.                                                        *)
(***************************************************************************)
C34_LastRegistrationWins ==
    /\ \A i \in 1..Len(results) :
          LET r == results[i] IN
          /\ r.value = (r.handler # "not_callable")
          /\ ~r.value => r.after = r.before
          /\ r.value =>
                /\ DOMAIN r.after = DOMAIN r.before \cup {r.command}
                /\ r.after[r.command] = r.handler
                /\ \A k \in DOMAIN r.before \ {r.command} : r.after[k] = r.before[k]
    /\ \A command \in RegisterNames :
          BoundTo(command, Len(results)) # "none" =>
              /\ command \in DOMAIN command_handlers
              /\ command_handlers[command] = BoundTo(command, Len(results))
    /\ \A i \in 1..Len(calls) :
          calls[i].handler = BoundTo(calls[i].command, RegisteredBefore(i))

\* a name that was bound to a handler was bound to another one, a value
\* that cannot be called was refused, and a request of the name was
\* dispatched after the second binding
C34_Witness ==
    \E j, k \in 1..Len(results) : \E n \in 1..Len(calls) :
        /\ results[j].value
        /\ results[j].command \in DOMAIN results[j].before
        /\ results[j].before[results[j].command] # results[j].handler
        /\ ~results[k].value
        /\ calls[n].command = results[j].command
        /\ results[j].at < n
        /\ calls[n].handler = results[j].handler

(***************************************************************************)
(* send_json_message in two steps.  It passes the length prefix to sendall *)
(* and then the payload, chunk by chunk, and holds no lock meanwhile.      *)
(* SendHeader and PublishHeader are the first sendall of a write that      *)
(* succeeds; SendResponse and PublishSend are then the rest of the write.  *)
(***************************************************************************)
\* the length prefix of message msg written to connection c
HeaderWritten(c, msg) ==
    /\ WriteOk(c)
    /\ \A i \in DOMAIN headersSent[c] : headersSent[c][i] # msg.id
    /\ headersSent' = [headersSent EXCEPT ![c] = Append(@, msg.id)]
    /\ UNCHANGED <<lifecycle, stream, header, message, returned, peerReset, peerWrote,
                   connections, running, clients, command_handlers, sockClosed, stopper>>

\* the loop of connection c has written the length prefix of its response
SendHeader(c) ==
    /\ pc[c] = "send"
    /\ HeaderWritten(c, response[c].msg)

\* handle_event in thread t has written the length prefix of the event for
\* the next client of its list
PublishHeader(t) ==
    /\ t \in DOMAIN threads
    /\ threads[t].msg # None
    /\ Connected(Head(threads[t].todo))
    /\ HeaderWritten(Head(threads[t].todo), threads[t].msg)

(***************************************************************************)
(* SpecWire: the running server with one peer that starts background       *)
(* playlist downloads, as in SpecPublish, with the writes in two steps.    *)
(***************************************************************************)
NextWire ==
    \/ \E c \in Served : Accept(c)
    \/ \E c \in Served : LoopCheck(c)
    \/ \E c \in Served : ReadMessage(c)
    \/ \E c \in Served : ProcessRequest(c)
    \/ \E c \in Served : SendHeader(c)
    \/ \E c \in Served : SendResponse(c)
    \/ \E c \in Served : \E frame \in PublishFrames(RequestId(Arrived(c) + 1)) :
           PeerSend(c, frame)
    \/ \E p \in background : BackgroundStart(p, UrlBlocked)
    \/ \E t \in DOMAIN threads : PublishCall(t)
    \/ \E t \in DOMAIN threads : PublishHeader(t)
    \/ \E t \in DOMAIN threads : PublishSend(t)

SpecWire == Init /\ [][NextWire]_vars

\* the messages of which connection c has got the length prefix and not
\* the payload
Outstanding(c) ==
    {headersSent[c][i] : i \in DOMAIN headersSent[c]} \
        {out[c][k].msg.id : k \in DOMAIN out[c]}

(***************************************************************************)
(* C35: the bytes of a frame written to a client's socket are contiguous   *)
(* on the wire: between the length prefix of a message and its payload no  *)
(* byte of another message is written, be it a response written by the     *)
(* client's loop or an event written by a broadcast.  The code violates    *)
(* it: the loop and the broadcasting threads write to the same socket      *)
(* without a lock.                                                         *)
(***************************************************************************)
C35_FramesContiguous ==
    \A c \in Clients : Cardinality(Outstanding(c)) <= 1

(***************************************************************************)
(* SpecKeepalive: the running server with two peers that send ping         *)
(* requests, plain ones and keepalive ones; the handling of a plain ping   *)
(* takes a minute (HandlerRuns), so that the connections are accepted and  *)
(* their requests read at different times.                                 *)
(***************************************************************************)
NextKeepalive ==
    \/ \E c \in Clients : Accept(c)
    \/ \E c \in Clients : LoopCheck(c)
    \/ \E c \in Clients : ReadMessage(c)
    \/ \E c \in Clients : ProcessRequest(c)
    \/ \E c \in Clients : now = request[c].current_time /\ HandlerRuns(c)
    \/ \E c \in Clients : SendResponse(c)
    \/ \E c \in Clients : \E frame \in TimeFrames(PeerRequestIds[c][Arrived(c) + 1]) :
           PeerSend(c, frame)

SpecKeepalive == Init /\ [][NextKeepalive]_vars

\* this step is taken by the loop of connection c for a keepalive ping: the
\* step that reads it, or a later step of the same iteration
KeepaliveStep(c) ==
    /\ pc[c] \in {"read", "process", "send"}
    /\ pc'[c] # pc[c]
    /\ KeepalivePing(request'[c].frame)

\* the entry, the timeout and the socket of a connection are left as they are
Untouched(d) ==
    /\ (d \in DOMAIN clients) = (d \in DOMAIN clients')
    /\ d \in DOMAIN clients => clients'[d] = clients[d]
    /\ sockTimeout'[d] = sockTimeout[d]
    /\ sockClosed'[d] = sockClosed[d]
    /\ pc'[d] = pc[d]

FailedResponses(c) == {k \in 1..Len(out[c]) : out[c][k].re > 0 /\ ~out[c][k].ok}

(***************************************************************************)
(* C37: when the write of a response frame on a connection fails or times  *)
(* out, the loop of the connection closes it: the loop reads no further    *)
(* frame from the socket and writes no further frame to it.  The code      *)
(* violates it: the loop does not look at what send_json_message returns   *)
(* and goes on to its next read.                                           *)
(***************************************************************************)
C37_FailedWriteClosesConnection ==
    \A c \in Clients : \A k \in FailedResponses(c) :
        /\ request[c].n = out[c][k].re
        /\ \A j \in 1..Len(out[c]) : j > k => out[c][j].re = out[c][k].re

\* the invocations of handle_start_playlist_download that raised, whose
\* requests are answered with an error response
FailedStarts ==
    {i \in 1..Len(calls) :
        calls[i].handler = "handle_start_playlist_download" /\ calls[i].raised}

(***************************************************************************)
(* C38: when a start_playlist_download request is answered with an error   *)
(* response, no background download runs for it and no event of it is      *)
(* broadcast.  The code violates it: start_playlist_download starts the    *)
(* download thread before it fetches the information of the playlist, and  *)
(* the thread fires its terminal event whatever the handler returned.      *)
(***************************************************************************)
C38_NoDownloadAfterError ==
    \A i \in FailedStarts :
        /\ calls[i].spawned \notin background
        /\ \A j \in 1..Len(published) : published[j].by # calls[i].spawned

(***************************************************************************)
(* SpecReinit: the running server with two peers, one of which starts      *)
(* background playlist downloads, while the hosting process runs           *)
(* uds_handler.initialize again.  The threads of two downloads get to run. *)
(***************************************************************************)
\* uds_handler.initialize called once more: server.init and handlers.init
\* register their listener and their callback again, register_default_handlers
\* binds the built-in names again, and the file at the socket path is removed.
\* The call is recorded with the number of handle_event calls made before it.
Reinitialize ==
    /\ initialized
    /\ Len(results) < MaxWrites
    /\ command_handlers' =
           [k \in DOMAIN command_handlers \cup DOMAIN DefaultHandlers |->
               IF k \in DOMAIN DefaultHandlers THEN DefaultHandlers[k]
               ELSE command_handlers[k]]
    /\ event_callbacks' = register_event_callback(event_callbacks, "handle_ytdlp_event")
    /\ event_listeners' = register_event_listener(event_listeners, "handle_event")
    /\ socketFile' = "none"
    /\ results' = Append(results,
           [op |-> "initialize", value |-> TRUE, was_running |-> running,
            changed |-> socketFile # "none", at |-> Len(published)])
    /\ UNCHANGED <<codec, connections, running, clients, sockClosed, stopper, listener,
                   acceptor, server_running, initialized>>

NextReinit ==
    \/ \E c \in Clients : Accept(c)
    \/ \E c \in Clients : LoopCheck(c)
    \/ \E c \in Served : ReadMessage(c)
    \/ \E c \in Served : ProcessRequest(c)
    \/ \E c \in Served : SendResponse(c)
    \/ \E c \in Served : \E frame \in PublishFrames(RequestId(Arrived(c) + 1)) :
           PeerSend(c, frame)
    \/ Reinitialize
    \/ \E p \in background : Cardinality(DOMAIN threads) <= 1 /\ BackgroundStart(p, UrlBlocked)
    \/ \E t \in DOMAIN threads : PublishCall(t)
    \/ \E t \in DOMAIN threads : PublishSend(t)

SpecReinit == Init /\ [][NextReinit]_vars

\* the writes to connection c of the event `event` fired by thread p
Delivered(c, p, event) ==
    {k \in 1..Len(out[c]) :
        /\ out[c][k].re = 0
        /\ out[c][k].msg.event = event
        /\ \E i \in 1..Len(published) :
              published[i].by = p /\ published[i].msg = out[c][k].msg}

(***************************************************************************)
(* C39: one publish call writes at most one event frame to each client:    *)
(* registering the event listener or the event callback again, as when the *)
(* initialisation runs twice, adds no second delivery path, and no client  *)
(* receives the same event twice.                                          *)
(***************************************************************************)
C39_NoSecondDelivery ==
    /\ Len(event_callbacks) <= 1 /\ Len(event_listeners) <= 1
    /\ \A c \in Clients : \A p \in DOMAIN threads :
           \A event \in TerminalEvents \cup {"playlist_item_downloaded"} :
               Cardinality(Delivered(c, p, event)) <= 1

\* the initialisation ran again, and an event published after it was
\* written to two clients; its thread has no event left to fire
C39_Witness ==
    \E p \in DOMAIN threads : \E i \in 1..Len(published) :
        /\ Fired(p) /\ threads[p].msg = None
        /\ published[i].by = p
        /\ \E r \in 1..Len(results) : results[r].at < i
        /\ \A c \in Clients :
              \E k \in Delivered(c, p, "playlist_download_completed") :
                  out[c][k].ok /\ out[c][k].msg = published[i].msg

(***************************************************************************)
(* stop() on a running server that is not started again.  The threads of   *)
(* the process are the thread that calls stop(), the thread of the accept  *)
(* loop and one thread per client; each of them is scheduled, so each      *)
(* takes its next step when it has one.  accept waits one second, a read   *)
(* of read_json_message 120 seconds, and a handler returns.  The peers     *)
(* owe nothing: they connect and close when they like, and send a frame    *)
(* when the one before was read.                                           *)
(***************************************************************************)
StopFrames(id) ==
    {[kind |-> "json", doc |-> Req0("ping", id)],
     [kind |-> "badjson", doc |-> None]}

\* start_server, once: the server of this section is never started again
StartOnce ==
    /\ acceptor.pc = "none"
    /\ StartServer

\* the statements of stop_server after the flag is cleared
StopThread ==
    \/ StopList
    \/ StopClose
    \/ StopClear
    \/ StopSocket
    \/ StopJoin
    \/ StopServerDone

\* the steps of _server_loop that wait for no peer
AcceptLoop ==
    \/ AcceptorCheck
    \/ AcceptorTimeout
    \/ AcceptorInsert

\* the steps of _handle_client
ClientLoop(c) ==
    \/ LoopCheck(c)
    \/ ReadMessage(c)
    \/ ReadEOF(c)
    \/ ReadTimeout(c)
    \/ ReadClosed(c)
    \/ ProcessRequest(c)
    \/ SendResponse(c)

NextStop ==
    \/ Initialize
    \/ StartOnce
    \/ StopBegin
    \/ StopThread
    \/ AcceptLoop
    \/ \E c \in Clients : AcceptorTakes(c)
    \/ \E c \in Clients : ClientLoop(c)
    \/ \E c \in Served : \E frame \in StopFrames(RequestId(Arrived(c) + 1)) :
           inbox[c] = <<>> /\ PeerSend(c, frame)
    \/ \E c \in Served : PeerClose(c)

SpecStop ==
    /\ InitBoot
    /\ [][NextStop]_vars
    /\ WF_vars(StopThread)
    /\ WF_vars(AcceptLoop)
    /\ \A c \in Clients : WF_vars(ClientLoop(c))

\* stop() cleared the flag of a server that was started
Stopped == ~running /\ acceptor.pc # "none"

\* the accept loop and every client loop are over, the set is empty
Terminated ==
    /\ acceptor.pc = "exited"
    /\ \A c \in Clients : pc[c] \in {"none", "done"}
    /\ clients = <<>>

\* the loop of the client is past its read: in process_request or in the
\* send of the response, or back at the test of the while
PastRead(c) == pc[c] \in {"process", "send", "loop"}

\* the step reads no request for the client
ReadsNothing(c) == pc'[c] # "read" /\ request'[c] = request[c]

(***************************************************************************)
(* C40: after stop() on a running server, with no later start(), the       *)
(* accept loop and every client loop end and the live-client set becomes   *)
(* empty and stays empty; a client loop that is in a handler (or anywhere  *)
(* past its read) once stop() cleared the flag reads no further request.   *)
(***************************************************************************)
C40_StopTerminates ==
    /\ Stopped ~> []Terminated
    /\ [][\A c \in Clients : (Stopped /\ PastRead(c)) => ReadsNothing(c)]_vars

\* a stopped server at rest: one client was in its handler when the set was
\* cleared (its loop ended on the KeyError of the entry), the loop of
\* another ended otherwise, stop_server returned
C40_Witness ==
    /\ Stopped /\ Terminated
    /\ stopper = NotStopping /\ ~server_running
    /\ \E c, d \in Clients :
          /\ closedBy[c] = "server_error" /\ Len(out[c]) = 2
          /\ \E i \in 1..Len(calls) : calls[i].client = c
          /\ closedBy[d] \in {"loop_end", "no_data", "dropped"}

====
